---- MODULE Spec2Model ----
(***************************************************************************)
(* libnotcurses-sys: the NcDirect and NcPlane method layers.               *)
(*                                                                         *)
(* Every method marshals its arguments, forwards to one native entry       *)
(* point and maps the raw integer or pointer it gets back to an NcResult.  *)
(* The native library is the environment: what it returns is chosen        *)
(* nondeterministically from small sets of raw values.                     *)
(*                                                                         *)
(* TLC integers are 32 bits wide, so the C int / u32 words of the binding  *)
(* are modelled IntBits bits wide; casts wrap modulo 2^IntBits.            *)
(***************************************************************************)
EXTENDS Integers, Sequences, FiniteSets, TLC

VARIABLES
    call,       \* the last method call: op, handle, raw native value, result
    crashed,    \* the calling thread panicked or the process aborted
    ref,        \* ref[h]: the &mut reference the caller holds for handle h
    nat,        \* nat[h]: the native object behind h
    releases,   \* releases[h]: native release calls made for h
    late,       \* late[h]: native calls forwarded for h after its release
    fwd,        \* fwd[h]: native calls forwarded for h by non-constructors
    hist,       \* hist[h]: the method calls made on h, oldest first
    content,    \* content[p]: what the planes of pile p hold
    frame,      \* frame[p]: the last frame rendered from pile p
    rendered,   \* rendered[p]: pile p has been rendered at least once
    screen,     \* what the physical screen shows
    exists,     \* exists[pl]: plane pl has been created and not destroyed
    geom,       \* geom[pl]: origin and dimensions of plane pl
    term,       \* the size of the terminal's visual region
    boundto,    \* boundto[n]: the plane n is bound to (itself for a root)
    zorder,     \* the piles: one z-ordering per pile, topmost plane first
    cells,      \* cells[pl]: the glyph held by each cell of plane pl
    cursor,     \* cursor[pl]: the cursor of plane pl
    scrolling,  \* scrolling[pl]: plane pl scrolls
    ctx,        \* the operation named by the last error's message
    trace,      \* the native calls the last method call made, in order
    pc,         \* pc[t]: the native call thread t is in, or "idle"
    serial,     \* the caller lets one thread at a time into the session
    caller      \* the caller's own variables lent to the last call

lifeVars == <<crashed, ref, nat, releases, late, fwd, hist>>
pileVars == <<content, frame, rendered, screen>>
geoVars == <<exists, geom, term>>
treeVars == <<boundto, zorder>>
cellVars == <<cells, cursor, scrolling>>
envVars == <<trace, pc, serial, caller>>
restVars == <<treeVars, cellVars, ctx, envVars>>

vars == <<call, lifeVars, pileVars, geoVars, restVars>>

----------------------------------------------------------------------------
(* Bounds *)

IntBits == 16
MaxHist == 3
MaxContent == 2
MaxDim == 2

----------------------------------------------------------------------------
(* Machine words *)

TwoTo(n) == 2 ^ n

I32Min == 0 - TwoTo(IntBits - 1)
I32Max == TwoTo(IntBits - 1) - 1
U32Max == TwoTo(IntBits) - 1

\* `x as u32`
AsU32Off(i) == (i + 1) % TwoTo(IntBits)
AsU32(i) == i % TwoTo(IntBits)

\* `x as i32`
AsI32(u) ==
    LET m == u % TwoTo(IntBits)
    IN  IF m >= TwoTo(IntBits - 1) THEN m - TwoTo(IntBits) ELSE m

NCRESULT_OK == 0
NCRESULT_ERR == 0 - 1
NULL == 0
Addr == 1

\* raw values a native int-returning call may hand back
RawInts == {I32Min, NCRESULT_ERR - 1, NCRESULT_ERR, 0, 1, 2, 256, I32Max}
\* raw values a native unsigned-returning call may hand back
RawUnsigned == {0, 1, 2, 256, U32Max}
\* raw values a native pointer-returning call may hand back
RawPtrs == {NULL, Addr}

----------------------------------------------------------------------------
(* NcResult *)

Ok(t, v) == [kind |-> "Ok", ty |-> t, val |-> v]
Err(code) == [kind |-> "Err", ty |-> "NcError", val |-> code]
\* the call did not return: why is "panic" for a failed assert!, "fault"
\* for a dereference of a null or dangling pointer
Abort(why) == [kind |-> "Abort", ty |-> why, val |-> 0]
\* a method without a Result in its signature has returned
Ret(t, v) == [kind |-> "Ret", ty |-> t, val |-> v]

NoCall == [op |-> "none", h |-> "none", raw |-> 0, res |-> Ret("unit", 0)]

\* error![res, msg, ok]
error(res, t, ok) ==
    IF res >= NCRESULT_OK THEN Ok(t, ok) ELSE Err(res)

\* error_ref_mut![ptr, msg] and error_ref![ptr, msg]
error_ref_mut(ptr) ==
    IF ptr = NULL THEN Err(NCRESULT_ERR) ELSE Ok("ref", ptr)

----------------------------------------------------------------------------
(* Handles *)

DirectHandles == {"d1"}
PlaneHandles == {"p1"}
Handles == DirectHandles \cup PlaneHandles

LifeInit ==
    /\ crashed = FALSE
    /\ ref = [h \in Handles |-> "none"]
    /\ nat = [h \in Handles |-> "unalloc"]
    /\ releases = [h \in Handles |-> 0]
    /\ late = [h \in Handles |-> 0]
    /\ fwd = [h \in Handles |-> 0]
    /\ hist = [h \in Handles |-> <<>>]

----------------------------------------------------------------------------
(* Piles and planes of the retained mode *)

Piles == {"std", "pile2"}
Planes == {"std", "pl"}
Blank == 0

Geom(y, x, rows, cols) == [y |-> y, x |-> x, rows |-> rows, cols |-> cols]
Size(rows, cols) == [rows |-> rows, cols |-> cols]

PileInit ==
    /\ content = [p \in Piles |-> Blank]
    /\ frame = [p \in Piles |-> Blank]
    /\ rendered = [p \in Piles |-> FALSE]
    /\ screen = Blank

\* the standard plane exists from the start and fills the terminal
StdGeom == Geom(0, 0, MaxDim, MaxDim)

GeoInit ==
    /\ exists = [pl \in Planes |-> pl = "std"]
    /\ geom = [pl \in Planes |-> StdGeom]
    /\ term = Size(MaxDim, MaxDim)

----------------------------------------------------------------------------
(* The tree of planes, the cells of a plane *)

\* A is the standard plane; B, C and D are bound to it and E to C
TreePlanes == {"A", "B", "C", "D", "E"}
TreeStd == "A"

TreeInit ==
    /\ boundto = [n \in TreePlanes |-> IF n = "E" THEN "C" ELSE "A"]
    /\ zorder = {<<"A", "B", "C", "D", "E">>}

Pos(y, x) == [y |-> y, x |-> x]

CellInit ==
    /\ cells = [pl \in Planes |-> <<>>]
    /\ cursor = [pl \in Planes |-> Pos(0, 0)]
    /\ scrolling = [pl \in Planes |-> FALSE]

Threads == {"t1", "t2"}

EnvInit ==
    /\ trace = <<>>
    /\ pc = [t \in Threads |-> "idle"]
    /\ serial = TRUE
    /\ caller = <<>>

RestInit == TreeInit /\ CellInit /\ ctx = "none" /\ EnvInit

----------------------------------------------------------------------------
(* Result translation, method by method.  The argument is the raw value   *)
(* the native call returned.                                               *)

\* methods whose whole body is error![native(...), msg], or
\* error![native(...), msg, out] with out-parameters the native call filled
DirectUnitMethods ==
    {"NcDirect.stop", "NcDirect.clear", "NcDirect.flush",
     "NcDirect.raster_frame", "NcDirect.render_image",
     "NcDirect.set_fg_palindex", "NcDirect.set_bg_palindex",
     "NcDirect.set_fg_rgb", "NcDirect.set_bg_rgb",
     "NcDirect.set_fg_rgb8", "NcDirect.set_bg_rgb8",
     "NcDirect.styles_off", "NcDirect.styles_on", "NcDirect.styles_set",
     "NcDirect.set_fg_default", "NcDirect.set_bg_default",
     "NcDirect.cursor_disable", "NcDirect.cursor_enable",
     "NcDirect.cursor_down", "NcDirect.cursor_left",
     "NcDirect.cursor_right", "NcDirect.cursor_up",
     "NcDirect.cursor_set_yx", "NcDirect.cursor_set_y",
     "NcDirect.cursor_set_x", "NcDirect.cursor_yx",
     "NcDirect.cursor_push", "NcDirect.cursor_pop",
     "NcDirect.inputready_fd", "NcDirect.putstr", "NcDirect.box",
     "NcDirect.double_box", "NcDirect.rounded_box",
     "NcDirect.hline_interp", "NcDirect.vline_interp"}

PlaneUnitMethods ==
    {"NcPlane.destroy", "NcPlane.set_fg_alpha", "NcPlane.set_bg_alpha",
     "NcPlane.base", "NcPlane.set_base_cell", "NcPlane.erase_region",
     "NcPlane.move_yx", "NcPlane.move_rel", "NcPlane.move_above",
     "NcPlane.move_below", "NcPlane.move_family_above",
     "NcPlane.move_family_below", "NcPlane.mergedown",
     "NcPlane.mergedown_simple", "NcPlane.rasterize", "NcPlane.render",
     "NcPlane.render_to_buffer", "NcPlane.render_to_file",
     "NcPlane.cursor_move_yx", "NcPlane.cursor_move_y",
     "NcPlane.cursor_move_x", "NcPlane.valign", "NcPlane.resize",
     "NcPlane.resize_marginalized", "NcPlane.resize_maximize",
     "NcPlane.resize_realign", "NcPlane.resize_simple",
     "NcPlane.rotate_cw", "NcPlane.rotate_ccw", "NcPlane.box",
     "NcPlane.box_sized", "NcPlane.double_box", "NcPlane.double_box_sized",
     "NcPlane.perimeter", "NcPlane.perimeter_double",
     "NcPlane.perimeter_rounded", "NcPlane.fadein",
     "NcPlane.fadein_iteration", "NcPlane.fadeout",
     "NcPlane.fadeout_iteration", "NcPlane.pulse"}

unit(res) == error(res, "unit", 0)

\* NcDirect::palette_size
palette_size_le(res) ==
    IF res <= 1 THEN Err(1) ELSE Ok("u32", res)
palette_size(res) ==
    IF res = 1 THEN Err(1) ELSE Ok("u32", res)

\* NcDirect::check_pixel_support
check_pixel_support_nz(res) ==
    IF res = 0 THEN Ok("bool", 0) ELSE Ok("bool", 1)
check_pixel_support(res) ==
    CASE res = 0 -> Ok("bool", 0)
      [] res = 1 -> Ok("bool", 1)
      [] OTHER   -> Err(res)

\* methods whose body is error![res, msg, res as u32] (NcDim is u32)
stain(res) == error(res, "u32", AsU32(res))
format(res) == error(res, "u32", AsU32(res))
at_cursor_cell(bytes) == error(bytes, "u32", AsU32(bytes))
at_yx_cell(bytes) == error(bytes, "u32", AsU32(bytes))
set_base(res) == error(res, "u32", AsU32(res))
putc_yx(res) == error(res, "u32", AsU32(res))
putc(res) == error(res, "u32", AsU32(res))
putchar(res) == error(res, "u32", AsU32(res))
putchar_stained(res) == error(res, "u32", AsU32(res))
putchar_yx(res) == error(res, "u32", AsU32(res))
putegc(res) == error(res, "u32", AsU32(res))
putegc_yx(res) == error(res, "u32", AsU32(res))
putegc_stained(res) == error(res, "u32", AsU32(res))
puttext(res) == error(res, "u32", AsU32(res))
putstr(res) == error(res, "u32", AsU32(res))
putstr_stained(res) == error(res, "u32", AsU32(res))
putstr_aligned(res) == error(res, "u32", AsU32(res))
putstr_yx(res) == error(res, "u32", AsU32(res))
putnstr(res) == error(res, "u32", AsU32(res))
putnstr_aligned(res) == error(res, "u32", AsU32(res))
putnstr_yx(res) == error(res, "u32", AsU32(res))
halign(res) == error(res, "u32", AsU32(res))
scrollup(res) == error(res, "u32", AsU32(res))
scrollup_child(res) == error(res, "u32", AsU32(res))
gradient(res) == error(res, "u32", AsU32(res))
gradient2x1(res) == error(res, "u32", AsU32(res))
\* `res as usize`: the pointer-sized word is wider than the int
polyfill_yx(res) == error(res, "usize", res % TwoTo(IntBits + 8))

CountMethods ==
    {"NcPlane.stain", "NcPlane.format", "NcPlane.at_cursor_cell",
     "NcPlane.at_yx_cell", "NcPlane.set_base", "NcPlane.putc_yx",
     "NcPlane.putc", "NcPlane.putchar", "NcPlane.putchar_stained",
     "NcPlane.putchar_yx", "NcPlane.putegc", "NcPlane.putegc_yx",
     "NcPlane.putegc_stained", "NcPlane.puttext", "NcPlane.putstr",
     "NcPlane.putstr_stained", "NcPlane.putstr_aligned",
     "NcPlane.putstr_yx", "NcPlane.putnstr", "NcPlane.putnstr_aligned",
     "NcPlane.putnstr_yx", "NcPlane.polyfill_yx", "NcPlane.halign",
     "NcPlane.scrollup", "NcPlane.scrollup_child", "NcPlane.gradient",
     "NcPlane.gradient2x1"}

count(m, res) ==
    CASE m = "NcPlane.stain" -> stain(res)
      [] m = "NcPlane.format" -> format(res)
      [] m = "NcPlane.at_cursor_cell" -> at_cursor_cell(res)
      [] m = "NcPlane.at_yx_cell" -> at_yx_cell(res)
      [] m = "NcPlane.set_base" -> set_base(res)
      [] m = "NcPlane.putc_yx" -> putc_yx(res)
      [] m = "NcPlane.putc" -> putc(res)
      [] m = "NcPlane.putchar" -> putchar(res)
      [] m = "NcPlane.putchar_stained" -> putchar_stained(res)
      [] m = "NcPlane.putchar_yx" -> putchar_yx(res)
      [] m = "NcPlane.putegc" -> putegc(res)
      [] m = "NcPlane.putegc_yx" -> putegc_yx(res)
      [] m = "NcPlane.putegc_stained" -> putegc_stained(res)
      [] m = "NcPlane.puttext" -> puttext(res)
      [] m = "NcPlane.putstr" -> putstr(res)
      [] m = "NcPlane.putstr_stained" -> putstr_stained(res)
      [] m = "NcPlane.putstr_aligned" -> putstr_aligned(res)
      [] m = "NcPlane.putstr_yx" -> putstr_yx(res)
      [] m = "NcPlane.putnstr" -> putnstr(res)
      [] m = "NcPlane.putnstr_aligned" -> putnstr_aligned(res)
      [] m = "NcPlane.putnstr_yx" -> putnstr_yx(res)
      [] m = "NcPlane.polyfill_yx" -> polyfill_yx(res)
      [] m = "NcPlane.halign" -> halign(res)
      [] m = "NcPlane.scrollup" -> scrollup(res)
      [] m = "NcPlane.scrollup_child" -> scrollup_child(res)
      [] m = "NcPlane.gradient" -> gradient(res)
      [] m = "NcPlane.gradient2x1" -> gradient2x1(res)

\* methods whose body is error_ref_mut![native(...), msg] or error_ref![...]
RefMethods ==
    {"NcDirect.with_flags", "NcDirect.render_frame",
     "NcPlane.with_options", "NcPlane.with_options_bound",
     "NcPlane.parent", "NcPlane.parent_const", "NcPlane.reparent",
     "NcPlane.reparent_family", "NcPlane.notcurses",
     "NcPlane.notcurses_const", "NcPlane.as_rgba"}

\* NcPlane::at_cursor, NcPlane::at_yx, NcDirect::readline: the method
\* tests the pointer itself
at_cursor(egc) ==
    IF egc = NULL THEN Err(NCRESULT_ERR) ELSE Ok("String", egc)
at_yx(egc) ==
    IF egc = NULL THEN Err(NCRESULT_ERR) ELSE Ok("String", egc)
readline(res) ==
    IF res # NULL THEN Ok("str", res) ELSE Err(NCRESULT_ERR)

NullCheckMethods == {"NcPlane.at_cursor", "NcPlane.at_yx", "NcDirect.readline"}

nullcheck(m, ptr) ==
    CASE m = "NcPlane.at_cursor" -> at_cursor(ptr)
      [] m = "NcPlane.at_yx" -> at_yx(ptr)
      [] m = "NcDirect.readline" -> readline(ptr)

\* NcPlane::dup, top, bottom: `&mut *ptr`, no test of the pointer and no
\* Result in the signature.  A null pointer makes the reference undefined
\* behaviour: the caller gets a null reference, or the process faults.
dup(ptr) ==
    IF ptr = NULL THEN {Ret("ref", NULL), Abort("fault")} ELSE {Ret("ref", ptr)}

DerefMethods == {"NcPlane.dup", "NcPlane.top", "NcPlane.bottom"}

\* rstring_free![ptr]: reads the C string at ptr, frees it, returns a String
rstring_free(ptr) ==
    IF ptr = NULL THEN {Ret("String", NULL), Abort("fault")} ELSE {Ret("String", ptr)}

\* NcPlane::contents
contents(ptr) == rstring_free(ptr)

\* methods that drop the int the native call returns and return ()
DiscardMethods ==
    {"NcPlane.set_fg_rgb8", "NcPlane.set_bg_rgb8", "NcPlane.set_fg_rgb",
     "NcPlane.set_bg_rgb", "NcPlane.set_fg_default",
     "NcPlane.set_bg_default", "NcPlane.set_fg_palindex",
     "NcPlane.set_bg_palindex"}

discard(res) == Ret("unit", 0)

----------------------------------------------------------------------------
(* SpecResult: one method call, the native call returning any raw value.   *)

Returned(m, r, res) ==
    /\ call' = [op |-> m, h |-> "self", raw |-> r, res |-> res]
    /\ UNCHANGED <<lifeVars, pileVars, geoVars, restVars>>

R_unit ==
    \E m \in DirectUnitMethods \cup PlaneUnitMethods, r \in RawInts :
        Returned(m, r, unit(r))

R_count ==
    \E m \in CountMethods, r \in RawInts : Returned(m, r, count(m, r))

R_palette_size ==
    \E r \in RawUnsigned : Returned("NcDirect.palette_size", r, palette_size(r))

R_check_pixel_support ==
    \E r \in RawInts :
        Returned("NcDirect.check_pixel_support", r, check_pixel_support(r))

R_ref ==
    \E m \in RefMethods, p \in RawPtrs : Returned(m, p, error_ref_mut(p))

R_nullcheck ==
    \E m \in NullCheckMethods, p \in RawPtrs : Returned(m, p, nullcheck(m, p))

R_deref ==
    \E m \in DerefMethods, p \in RawPtrs :
        \E res \in dup(p) : Returned(m, p, res)

R_contents ==
    \E p \in RawPtrs :
        \E res \in contents(p) : Returned("NcPlane.contents", p, res)

R_discard ==
    \E m \in DiscardMethods, r \in {NCRESULT_ERR, NCRESULT_OK} :
        Returned(m, r, discard(r))

InitResult == call = NoCall /\ LifeInit /\ PileInit /\ GeoInit /\ RestInit

NextResult ==
    \/ R_unit
    \/ R_count
    \/ R_palette_size
    \/ R_check_pixel_support
    \/ R_ref
    \/ R_nullcheck
    \/ R_deref
    \/ R_contents
    \/ R_discard

SpecResult == InitResult /\ [][NextResult]_vars

PtrMethods ==
    RefMethods \cup NullCheckMethods \cup DerefMethods \cup {"NcPlane.contents"}

\* the native call reported failure
Failed(c) ==
    \/ c.op \in PtrMethods /\ c.raw = NULL
    \/ c.op \in (DirectUnitMethods \cup PlaneUnitMethods \cup CountMethods
                    \cup DiscardMethods \cup {"NcDirect.check_pixel_support"})
       /\ c.raw < 0

\* C2: whenever the native call of a forwarding method returns its failure
\* sentinel (a negative integer, or a null pointer from a pointer-returning
\* call), the method returns an error result and never a success value.
C2_FailureIsErr == Failed(call) => call.res.kind = "Err"

\* C4: palette_size returns an error when the native call reports exactly
\* 1, and Ok(r) with the count unchanged for every other raw value r.
C4_PaletteSize ==
    call.op = "NcDirect.palette_size" =>
        IF call.raw = 1
        THEN call.res.kind = "Err"
        ELSE call.res = Ok("u32", call.raw)

C4_Witness ==
    /\ call.op = "NcDirect.palette_size"
    /\ call.raw = 256
    /\ call.res = Ok("u32", 256)

\* C5: check_pixel_support is a tri-state: raw 0 gives Ok(false), raw 1
\* gives Ok(true), every other raw value gives an error carrying it.
C5_PixelTriState ==
    call.op = "NcDirect.check_pixel_support" =>
        CASE call.raw = 0 -> call.res = Ok("bool", 0)
          [] call.raw = 1 -> call.res = Ok("bool", 1)
          [] OTHER -> call.res.kind = "Err" /\ call.res.val = call.raw

C5_Witness ==
    /\ call.op = "NcDirect.check_pixel_support"
    /\ call.raw = 2
    /\ call.res.kind = "Err"

\* the methods C6 names
C6Methods ==
    {"NcPlane.stain", "NcPlane.format", "NcPlane.at_cursor_cell",
     "NcPlane.at_yx_cell", "NcPlane.set_base", "NcPlane.putc",
     "NcPlane.putchar", "NcPlane.putegc", "NcPlane.putstr",
     "NcPlane.putnstr", "NcPlane.puttext", "NcPlane.polyfill_yx",
     "NcPlane.scrollup", "NcPlane.gradient", "NcPlane.halign"}

\* C6: whenever a count-returning method returns Ok(n), n equals the raw
\* integer the native call returned: the signed-to-unsigned cast adds no
\* offset and does not wrap.
C6_CountIsRaw ==
    (call.op \in C6Methods /\ call.res.kind = "Ok") =>
        call.res.val = call.raw

C6_Witness ==
    /\ call.op = "NcPlane.polyfill_yx"
    /\ call.raw = I32Max
    /\ call.res.kind = "Ok"
    /\ call.res.val = I32Max

----------------------------------------------------------------------------
(* Spec: sessions and planes from construction to release.                 *)
(*                                                                         *)
(* A constructor hands the caller `&'a mut` to the native object, with a   *)
(* lifetime the caller picks.  Every method borrows it through `&mut self` *)
(* or `&self`; none takes it by value.                                     *)

\* the reference the caller holds once a `&mut self` method has returned
SelfAfterPoisoned(r, res) == IF res.kind = "Err" THEN "none" ELSE r
SelfAfter(r, res) == r

\* what a native call on h can do: on a live object it returns one of
\* rets; on a released object it is a use after free, which returns any of
\* them or faults
NativeOutcomes(h, rets) ==
    [raw : rets, abort : {FALSE}]
        \cup (IF nat[h] = "freed" THEN {[raw |-> 0, abort |-> TRUE]} ELSE {})

Entry(m, res) == [kind |-> res.kind, op |-> m]

\* a method on handle h that forwards n times to one native entry point,
\* which returns one of rets; release says the entry point frees h
MethodCall(h, m, rets, release, n) ==
    /\ ~crashed
    /\ ref[h] = "ref"
    /\ Len(hist[h]) < MaxHist
    /\ \E o \in NativeOutcomes(h, rets) :
        LET res == IF o.abort THEN Abort("fault") ELSE unit(o.raw)
        IN  /\ call' = [op |-> m, h |-> h, raw |-> o.raw, res |-> res]
            /\ crashed' = o.abort
            /\ ref' = [ref EXCEPT ![h] = SelfAfter(@, res)]
            /\ hist' = [hist EXCEPT ![h] = Append(@, Entry(m, res))]
    /\ fwd' = [fwd EXCEPT ![h] = @ + n]
    /\ late' = [late EXCEPT ![h] = IF nat[h] = "freed" THEN @ + n ELSE @]
    /\ releases' = [releases EXCEPT ![h] = IF release THEN @ + n ELSE @]
    /\ nat' = [nat EXCEPT ![h] = IF release THEN "freed" ELSE @]
    /\ UNCHANGED <<pileVars, geoVars, restVars>>

\* a constructor: the native create call returns a pointer, null on failure
Construct(h, m) ==
    /\ ~crashed
    /\ ref[h] = "none"
    /\ nat[h] = "unalloc"
    /\ \E p \in RawPtrs :
        LET res == error_ref_mut(p)
        IN  /\ call' = [op |-> m, h |-> h, raw |-> p, res |-> res]
            /\ ref' = [ref EXCEPT ![h] = IF res.kind = "Ok" THEN "ref" ELSE @]
            /\ nat' = [nat EXCEPT ![h] = IF p # NULL THEN "live" ELSE @]
            /\ hist' = [hist EXCEPT ![h] =
                            IF res.kind = "Ok" THEN <<Entry(m, res)>> ELSE @]
    /\ UNCHANGED <<crashed, releases, late, fwd, pileVars, geoVars, restVars>>

\* NcDirect::with_flags: ncdirect_init
NcDirect_with_flags(h) == Construct(h, "NcDirect.with_flags")

\* NcDirect::new: Self::with_flags(0)
NcDirect_new(h) == Construct(h, "NcDirect.new")

\* NcDirect::stop: ncdirect_stop
NcDirect_stop(h) == MethodCall(h, "NcDirect.stop", {NCRESULT_ERR, NCRESULT_OK}, TRUE, 1)

\* NcDirect::clear: ncdirect_clear
NcDirect_clear(h) == MethodCall(h, "NcDirect.clear", {NCRESULT_ERR, NCRESULT_OK}, FALSE, 1)

\* NcDirect::flush: ncdirect_flush
NcDirect_flush(h) == MethodCall(h, "NcDirect.flush", {NCRESULT_ERR, NCRESULT_OK}, FALSE, 1)

\* NcPlane::with_options: ncpile_create
NcPlane_with_options(h) == Construct(h, "NcPlane.with_options")

\* NcPlane::new: Self::with_options(nc, &NcPlaneOptions::new(..))
NcPlane_new(h) == Construct(h, "NcPlane.new")

\* NcPlane::with_options_bound: ncplane_create
NcPlane_with_options_bound(h) == Construct(h, "NcPlane.with_options_bound")

\* NcPlane::new_bound: Self::with_options_bound(..)
NcPlane_new_bound(h) == Construct(h, "NcPlane.new_bound")

\* the terminal dimensions notcurses_term_dim_yx may report
TermDims == {0, 24}

\* NcPlane::with_termsize: asserts both terminal dimensions are positive,
\* then Self::with_options(..)
NcPlane_with_termsize(h) ==
    /\ ~crashed
    /\ ref[h] = "none"
    /\ nat[h] = "unalloc"
    /\ \E trows \in TermDims, tcols \in TermDims :
        IF trows > 0 /\ tcols > 0
        THEN Construct(h, "NcPlane.with_termsize")
        ELSE /\ call' = [op |-> "NcPlane.with_termsize", h |-> h,
                         raw |-> NULL, res |-> Abort("panic")]
             /\ crashed' = TRUE
             /\ UNCHANGED <<ref, nat, releases, late, fwd, hist>>
             /\ UNCHANGED <<pileVars, geoVars, restVars>>

\* NcPlane::destroy: ncplane_destroy
NcPlane_destroy_twice(h) == MethodCall(h, "NcPlane.destroy", {NCRESULT_OK}, TRUE, 2)
NcPlane_destroy(h) == MethodCall(h, "NcPlane.destroy", {NCRESULT_OK}, TRUE, 1)

\* NcPlane::cursor_move_yx: ncplane_cursor_move_yx
NcPlane_cursor_move_yx(h) ==
    MethodCall(h, "NcPlane.cursor_move_yx", {NCRESULT_ERR, NCRESULT_OK}, FALSE, 1)

Init == call = NoCall /\ LifeInit /\ PileInit /\ GeoInit /\ RestInit

Next ==
    \/ \E h \in DirectHandles : NcDirect_with_flags(h)
    \/ \E h \in DirectHandles : NcDirect_new(h)
    \/ \E h \in DirectHandles : NcDirect_stop(h)
    \/ \E h \in DirectHandles : NcDirect_clear(h)
    \/ \E h \in DirectHandles : NcDirect_flush(h)
    \/ \E h \in PlaneHandles : NcPlane_with_options(h)
    \/ \E h \in PlaneHandles : NcPlane_new(h)
    \/ \E h \in PlaneHandles : NcPlane_with_options_bound(h)
    \/ \E h \in PlaneHandles : NcPlane_new_bound(h)
    \/ \E h \in PlaneHandles : NcPlane_with_termsize(h)
    \/ \E h \in PlaneHandles : NcPlane_destroy(h)
    \/ \E h \in PlaneHandles : NcPlane_cursor_move_yx(h)

Spec == Init /\ [][Next]_vars

Constructors ==
    {"NcDirect.new", "NcDirect.with_flags", "NcPlane.new",
     "NcPlane.with_options", "NcPlane.new_bound",
     "NcPlane.with_options_bound", "NcPlane.with_termsize"}
ReleaseOps == {"NcDirect.stop", "NcPlane.destroy"}
InPlaceOps == {"NcDirect.clear", "NcDirect.flush", "NcPlane.cursor_move_yx"}

\* C1: for every handle, the native release entry point is invoked at most
\* once, and no operation is forwarded to the native library for the
\* handle after its release call has completed.
C1_ReleasedOnce == \A h \in Handles : releases[h] <= 1 /\ late[h] = 0

\* C3: a failed in-place operation on a valid handle leaves the caller's
\* reference as it was, and every later call on the handle is still
\* forwarded to the native library, one native call per method call.
C3_ErrorDoesNotPoison ==
    \A h \in Handles :
        (\E i \in 1..Len(hist[h]) :
            hist[h][i].op \in InPlaceOps /\ hist[h][i].kind = "Err")
        => /\ ref[h] = "ref"
           /\ fwd[h] = Len(hist[h]) - 1

\* a failed clear followed by a successful one on the same session
C3_Witness ==
    /\ Len(hist["d1"]) = 3
    /\ hist["d1"][2] = [kind |-> "Err", op |-> "NcDirect.clear"]
    /\ hist["d1"][3] = [kind |-> "Ok", op |-> "NcDirect.clear"]
    /\ fwd["d1"] = 2

\* the constructors C7 names
C7Constructors ==
    {"NcDirect.new", "NcDirect.with_flags", "NcPlane.new",
     "NcPlane.with_options", "NcPlane.new_bound",
     "NcPlane.with_options_bound"}

\* C7: creating a session or plane and immediately stopping or destroying
\* it completes without a crash and makes exactly one native release call
\* for the handle.
C7_CreateThenRelease ==
    \A h \in Handles :
        (/\ Len(hist[h]) = 2
         /\ hist[h][1].op \in C7Constructors
         /\ hist[h][2].op \in ReleaseOps)
        => /\ hist[h][2].kind # "Abort"
           /\ releases[h] = 1
           /\ late[h] = 0
           /\ nat[h] = "freed"

C7_Witness ==
    /\ hist["p1"] = <<[kind |-> "Ok", op |-> "NcPlane.new_bound"],
                      [kind |-> "Ok", op |-> "NcPlane.destroy"]>>
    /\ releases["p1"] = 1

\* C8: every constructor reports a failed construction as a typed error and
\* yields no handle: it never aborts the caller, and a null pointer from the
\* native create call never produces a reference.
C8_ConstructorFailureIsErr ==
    call.op \in Constructors =>
        /\ call.res.kind \in {"Ok", "Err"}
        /\ call.raw = NULL => (call.res.kind = "Err" /\ ref[call.h] = "none")

----------------------------------------------------------------------------
(* SpecPile: drawing on the planes of a pile, rendering the pile and       *)
(* rasterizing it.  The binding forwards each call; what the native        *)
(* library does to the pile is taken from the methods' documentation.      *)

\* native: a glyph is written unless the call fails
ncplane_putchar(cont, ch, res) == IF res >= 0 THEN ch ELSE cont

\* native: every cell goes back to undrawn
ncplane_erase(cont) == Blank

\* native: a render replaces the pile's rendered frame by one computed from
\* the planes as they are now
ncpile_render(fr, cont, res) == IF res >= 0 THEN cont ELSE fr

\* native: the physical screen is made to match the last rendered frame
ncpile_rasterize(scr, fr, res) == IF res >= 0 THEN fr ELSE scr

PileCall(m, p, r, res) ==
    /\ call' = [op |-> m, h |-> p, raw |-> r, res |-> res]
    /\ UNCHANGED <<lifeVars, geoVars, restVars>>

NcPlane_putchar(p) ==
    \E ch \in 1..MaxContent, r \in {NCRESULT_ERR, 1} :
        /\ content' = [content EXCEPT
                          ![p] = ncplane_putchar(content[p], ch, r)]
        /\ PileCall("NcPlane.putchar", p, r, putchar(r))
        /\ UNCHANGED <<frame, rendered, screen>>

NcPlane_erase(p) ==
    /\ content' = [content EXCEPT ![p] = ncplane_erase(content[p])]
    /\ PileCall("NcPlane.erase", p, 0, Ret("unit", 0))
    /\ UNCHANGED <<frame, rendered, screen>>

NcPlane_render(p) ==
    \E r \in {NCRESULT_ERR, NCRESULT_OK} :
        /\ frame' = [frame EXCEPT ![p] = ncpile_render(frame[p], content[p], r)]
        /\ rendered' = [rendered EXCEPT ![p] = @ \/ r >= 0]
        /\ PileCall("NcPlane.render", p, r, unit(r))
        /\ UNCHANGED <<content, screen>>

\* a rasterize that refuses a pile that was never rendered
NcPlane_rasterize_guarded(p) ==
    \E r \in {NCRESULT_ERR, NCRESULT_OK} :
        LET n == IF rendered[p] THEN r ELSE NCRESULT_ERR IN
        /\ screen' = ncpile_rasterize(screen, frame[p], n)
        /\ PileCall("NcPlane.rasterize", p, n, unit(n))
        /\ UNCHANGED <<content, frame, rendered>>

NcPlane_rasterize(p) ==
    \E r \in {NCRESULT_ERR, NCRESULT_OK} :
        /\ screen' = ncpile_rasterize(screen, frame[p], r)
        /\ PileCall("NcPlane.rasterize", p, r, unit(r))
        /\ UNCHANGED <<content, frame, rendered>>

InitPile == call = NoCall /\ LifeInit /\ PileInit /\ GeoInit /\ RestInit

NextPile ==
    \E p \in Piles :
        \/ NcPlane_putchar(p)
        \/ NcPlane_erase(p)
        \/ NcPlane_render(p)
        \/ NcPlane_rasterize(p)

SpecPile == InitPile /\ [][NextPile]_vars

RenderAccepted(p) == NcPlane_render(p) /\ call'.res.kind = "Ok"
RasterizeAccepted(p) == NcPlane_rasterize(p) /\ call'.res.kind = "Ok"

Succeeded(m, p) ==
    /\ call'.op = m
    /\ call'.h = p
    /\ call'.res.kind = "Ok"

C9_Step ==
    \A p \in Piles :
        /\ Succeeded("NcPlane.render", p) => frame'[p] = content[p]
        /\ Succeeded("NcPlane.rasterize", p) =>
              /\ screen' = frame[p]
              /\ ~rendered[p] => screen' = Blank
        /\ frame'[p] # frame[p] =>
              call'.op = "NcPlane.render" /\ call'.h = p
        /\ screen' # screen => call'.op = "NcPlane.rasterize"
        /\ content'[p] # content[p] =>
              call'.op \in {"NcPlane.putchar", "NcPlane.erase"}

\* C9: per pile, render can succeed in every state and replaces the frame
\* rendered before by one of the current content; rasterize can succeed in
\* every state, also before any render, and puts the last rendered frame on
\* the screen, which is blank when the pile was never rendered; drawing on
\* a plane changes neither the frame nor the screen, so new content is
\* displayed only by a render followed by a rasterize.
C9_RenderThenRasterize ==
    /\ [](\A p \in Piles :
            ENABLED RenderAccepted(p) /\ ENABLED RasterizeAccepted(p))
    /\ [][C9_Step]_vars

C9_Witness ==
    /\ call.op = "NcPlane.rasterize"
    /\ call.res.kind = "Ok"
    /\ ~rendered[call.h]
    /\ content[call.h] # Blank
    /\ screen = Blank

----------------------------------------------------------------------------
(* SpecStd: the standard plane, one ordinary plane bound to it, and the    *)
(* operations that place, size and destroy a plane.  The native library's  *)
(* answers are taken from the methods' documentation.                      *)

Offsets == (0 - 1)..1
Lens == 0..MaxDim
\* the sizes the terminal is given: its height varies
TermSizes == {Size(r, MaxDim) : r \in 1..MaxDim}

\* the positions explored
InRange(g) == g.y \in Offsets /\ g.x \in Offsets

Min(a, b) == IF a < b THEN a ELSE b

Answer(r, g) == [raw |-> r, g |-> g]

\* native: a plane needs positive dimensions; creation may fail anyway
ncplane_create(rows, cols, ptr) ==
    IF rows = 0 \/ cols = 0 THEN NULL ELSE ptr

\* native: it is an error to attempt to destroy the standard plane
ncplane_destroy(pl) == IF pl = "std" THEN NCRESULT_ERR ELSE NCRESULT_OK

\* native: it is an error to attempt to move the standard plane
ncplane_move_yx(pl, g, y, x) ==
    IF pl = "std"
    THEN Answer(NCRESULT_ERR, g)
    ELSE Answer(NCRESULT_OK, [g EXCEPT !.y = y, !.x = x])

\* the move relative to the current location, built on ncplane_move_yx
ncplane_moverel(pl, g, rows, cols) ==
    ncplane_move_yx(pl, g, g.y + rows, g.x + cols)

ResizeValid(g, keep_y, keep_x, keep_len_y, keep_len_x, y_len, x_len) ==
    /\ keep_y \in 0..(g.rows - 1)
    /\ keep_x \in 0..(g.cols - 1)
    /\ (keep_len_y = 0) = (keep_len_x = 0)
    /\ y_len >= keep_len_y
    /\ x_len >= keep_len_x
    /\ y_len > 0
    /\ x_len > 0

\* native: it is an error to attempt to resize the standard plane; the new
\* upper-left corner is placed relative to the kept region
ncplane_resize(pl, g, keep_y, keep_x, keep_len_y, keep_len_x, y_off, x_off, y_len, x_len) ==
    IF \/ pl = "std"
       \/ ~ResizeValid(g, keep_y, keep_x, keep_len_y, keep_len_x,
                       y_len, x_len)
    THEN Answer(NCRESULT_ERR, g)
    ELSE Answer(NCRESULT_OK,
                Geom(g.y + keep_y + y_off, g.x + keep_x + x_off,
                     y_len, x_len))

\* the resize that keeps the origin and what data it can, built on
\* ncplane_resize
ncplane_resize_simple(pl, g, y_len, x_len) ==
    ncplane_resize(pl, g, 0, 0, Min(g.rows, y_len), Min(g.cols, x_len),
                   0, 0, y_len, x_len)

\* native: the plane takes the size of the visual region
ncplane_resize_maximize(g, t, res) ==
    IF res >= 0
    THEN Answer(res, [g EXCEPT !.rows = t.rows, !.cols = t.cols])
    ELSE Answer(res, g)

GeoCall(m, pl, r, res) ==
    /\ call' = [op |-> m, h |-> pl, raw |-> r, res |-> res]
    /\ UNCHANGED <<lifeVars, pileVars, term, restVars>>

Placed(m, pl, a) ==
    /\ InRange(a.g)
    /\ geom' = [geom EXCEPT ![pl] = a.g]
    /\ GeoCall(m, pl, a.raw, unit(a.raw))
    /\ UNCHANGED exists

NcPlane_new_bound_to_std(pl) ==
    /\ ~exists[pl]
    /\ \E y \in Offsets, x \in Offsets, rows \in Lens, cols \in Lens,
          r \in RawPtrs :
          LET ptr == ncplane_create(rows, cols, r) IN
          /\ exists' = [exists EXCEPT ![pl] = ptr # NULL]
          /\ geom' = [geom EXCEPT
                         ![pl] = IF ptr # NULL
                                 THEN Geom(y, x, rows, cols) ELSE @]
          /\ GeoCall("NcPlane.new_bound", pl, ptr, error_ref_mut(ptr))

NcPlane_destroy_plane(pl) ==
    /\ exists[pl]
    /\ LET r == ncplane_destroy(pl) IN
          /\ exists' = [exists EXCEPT ![pl] = r < 0]
          /\ GeoCall("NcPlane.destroy", pl, r, unit(r))
    /\ UNCHANGED geom

\* a move_yx that drops the native call's result
NcPlane_move_yx_unchecked(pl) ==
    /\ exists[pl]
    /\ \E y \in Offsets, x \in Offsets :
          LET a == ncplane_move_yx(pl, geom[pl], y, x) IN
          /\ InRange(a.g)
          /\ geom' = [geom EXCEPT ![pl] = a.g]
          /\ GeoCall("NcPlane.move_yx", pl, a.raw, Ret("unit", 0))
          /\ UNCHANGED exists

NcPlane_move_yx(pl) ==
    /\ exists[pl]
    /\ \E y \in Offsets, x \in Offsets :
          Placed("NcPlane.move_yx", pl,
                 ncplane_move_yx(pl, geom[pl], y, x))

NcPlane_move_rel(pl) ==
    /\ exists[pl]
    /\ \E rows \in Offsets, cols \in Offsets :
          Placed("NcPlane.move_rel", pl,
                 ncplane_moverel(pl, geom[pl], rows, cols))

NcPlane_resize(pl) ==
    /\ exists[pl]
    /\ \E keep_y \in 0..1, keep_x \in {0},
          keep_len_y \in 0..1, keep_len_x \in 0..1,
          y_off \in {0 - 1, 0}, x_off \in {0},
          y_len \in Lens, x_len \in Lens :
          Placed("NcPlane.resize", pl,
                 ncplane_resize(pl, geom[pl], AsI32(keep_y), AsI32(keep_x),
                                keep_len_y, keep_len_x,
                                AsI32(AsU32(y_off)), AsI32(AsU32(x_off)),
                                y_len, x_len))

NcPlane_resize_simple(pl) ==
    /\ exists[pl]
    /\ \E y_len \in Lens, x_len \in Lens :
          Placed("NcPlane.resize_simple", pl,
                 ncplane_resize_simple(pl, geom[pl],
                                       AsU32(y_len), AsU32(x_len)))

NcPlane_resize_maximize(pl) ==
    /\ exists[pl]
    /\ \E r \in {NCRESULT_ERR, NCRESULT_OK} :
          Placed("NcPlane.resize_maximize", pl,
                 ncplane_resize_maximize(geom[pl], term, r))

\* the user resizes the terminal
TermResize ==
    /\ \E t \in TermSizes : t # term /\ term' = t
    /\ call' = NoCall
    /\ UNCHANGED <<lifeVars, pileVars, exists, geom, restVars>>

InitStd == call = NoCall /\ LifeInit /\ PileInit /\ GeoInit /\ RestInit

NextStd ==
    \/ \E pl \in Planes :
          \/ NcPlane_new_bound_to_std(pl)
          \/ NcPlane_destroy_plane(pl)
          \/ NcPlane_move_yx(pl)
          \/ NcPlane_move_rel(pl)
          \/ NcPlane_resize(pl)
          \/ NcPlane_resize_simple(pl)
          \/ NcPlane_resize_maximize(pl)
    \/ TermResize

SpecStd == InitStd /\ [][NextStd]_vars

C10Ops ==
    {"NcPlane.destroy", "NcPlane.resize", "NcPlane.resize_simple",
     "NcPlane.move_yx", "NcPlane.move_rel"}

C10_Step ==
    /\ (call'.h = "std" /\ call'.op \in C10Ops) =>
          /\ call'.res.kind = "Err"
          /\ geom'["std"] = geom["std"]
    /\ geom'["std"] # geom["std"] =>
          /\ call'.op = "NcPlane.resize_maximize"
          /\ call'.h = "std"
          /\ geom'["std"].rows = term.rows
          /\ geom'["std"].cols = term.cols

----------------------------------------------------------------------------
(* SpecTree: binding planes to each other and ordering them on the z-axis. *)
(* What the native library does to the tree and to the z-buffer is taken   *)
(* from the methods' documentation.                                        *)

Range(z) == {z[i] : i \in 1..Len(z)}
Keep(z, S) == SelectSeq(z, LAMBDA q : q \in S)
Remove(z, S) == SelectSeq(z, LAMBDA q : q \notin S)
PileOf(zs, n) == CHOOSE z \in zs : n \in Range(z)
NonEmpty(z) == IF z = <<>> THEN {} ELSE {z}

\* the plane n together with every plane bound to it, directly or not
RECURSIVE Family(_, _)
Family(b, S) ==
    LET N == S \cup {c \in TreePlanes : b[c] \in S}
    IN IF N = S THEN S ELSE Family(b, N)

Tree(ptr, b, zs) == [ptr |-> ptr, b |-> b, zs |-> zs]

\* the planes S leave their pile and form a pile of their own
Split(zs, n, S) ==
    LET old == PileOf(zs, n)
    IN (zs \ {old}) \cup {Keep(old, S)} \cup NonEmpty(Remove(old, S))

\* the planes S join the pile of np, on top of it
Join(zs, n, S, np) ==
    LET old == PileOf(zs, n)
        new == PileOf(zs, np)
    IN IF old = new
       THEN zs
       ELSE (zs \ {old, new}) \cup {Keep(old, S) \o new}
                \cup NonEmpty(Remove(old, S))

\* the planes bound to n are handed over to the plane n was bound to
Rebound(b, n, np) ==
    [c \in TreePlanes |->
        IF c = n THEN np ELSE IF b[c] = n THEN b[n] ELSE b[c]]

\* native: the standard plane cannot be reparented; a plane reparented to
\* itself becomes the root of a new pile unless it is one already
ncplane_reparent(b, zs, n, np) ==
    IF n = TreeStd THEN Tree(NULL, b, zs)
    ELSE IF np = n
    THEN IF b[n] = n
         THEN Tree(Addr, b, zs)
         ELSE Tree(Addr, Rebound(b, n, n), Split(zs, n, {n}))
    ELSE Tree(Addr, Rebound(b, n, np), Join(zs, n, {n}, np))

\* native: like ncplane_reparent, the bound planes coming along
ncplane_reparent_family(b, zs, n, np) ==
    IF n = TreeStd THEN Tree(NULL, b, zs)
    ELSE IF np = n
    THEN IF b[n] = n
         THEN Tree(Addr, b, zs)
         ELSE Tree(Addr, [b EXCEPT ![n] = n], Split(zs, n, Family(b, {n})))
    ELSE IF np \in Family(b, {n})
    THEN Tree(NULL, b, zs)
    ELSE Tree(Addr, [b EXCEPT ![n] = np], Join(zs, n, Family(b, {n}), np))

TreeCall(m, n, r, res, np) ==
    /\ call' = [op |-> m, h |-> n, raw |-> r, res |-> res, arg |-> np]
    /\ UNCHANGED <<lifeVars, pileVars, geoVars, cellVars, ctx, envVars>>

Reparented(m, n, np, t) ==
    /\ boundto' = t.b
    /\ zorder' = t.zs
    /\ TreeCall(m, n, t.ptr, error_ref_mut(t.ptr), np)

\* the planes a plane is reparented to here: itself, the standard plane
NewParents(n) == {n, "A"}

\* a root that has planes bound to it is reparented to itself only
Reparentable(n, np) ==
    np = n \/ boundto[n] # n \/ Family(boundto, {n}) = {n}

\* a reparent that takes the bound planes along
NcPlane_reparent_as_family(n) ==
    \E np \in NewParents(n) :
        /\ Reparentable(n, np)
        /\ Reparented("NcPlane.reparent", n, np,
                      ncplane_reparent_family(boundto, zorder, n, np))

NcPlane_reparent(n) ==
    \E np \in NewParents(n) :
        /\ Reparentable(n, np)
        /\ Reparented("NcPlane.reparent", n, np,
                      ncplane_reparent(boundto, zorder, n, np))

NcPlane_reparent_family(n) ==
    \E np \in NewParents(n) :
        /\ Reparentable(n, np)
        /\ Reparented("NcPlane.reparent_family", n, np,
                      ncplane_reparent_family(boundto, zorder, n, np))

\* native: the family of n is spliced out of the z-buffer and reinserted at
\* the top, the order among the reinserted planes being maintained
ncplane_move_family_top(b, zs, n) ==
    LET old == PileOf(zs, n)
        fam == Family(b, {n})
    IN (zs \ {old}) \cup {Keep(old, fam) \o Remove(old, fam)}

\* native: the same, reinserted at the bottom
ncplane_move_family_bottom(b, zs, n) ==
    LET old == PileOf(zs, n)
        fam == Family(b, {n})
    IN (zs \ {old}) \cup {Remove(old, fam) \o Keep(old, fam)}

Index(z, q) == CHOOSE i \in 1..Len(z) : z[i] = q

Spliced(z, fam, i) ==
    LET others == Remove(z, fam)
    IN SubSeq(others, 1, i) \o Keep(z, fam)
          \o SubSeq(others, i + 1, Len(others))

\* native: the same, reinserted above the plane targ; both planes must not
\* be the same
ncplane_move_family_above(b, zs, n, targ) ==
    LET old == PileOf(zs, n)
        fam == Family(b, {n})
    IN IF targ = n
       THEN [raw |-> NCRESULT_ERR, zs |-> zs]
       ELSE [raw |-> NCRESULT_OK,
             zs |-> (zs \ {old}) \cup
                      {Spliced(old, fam, Index(Remove(old, fam), targ) - 1)}]

\* native: the same, reinserted below the plane targ
ncplane_move_family_below(b, zs, n, targ) ==
    LET old == PileOf(zs, n)
        fam == Family(b, {n})
    IN IF targ = n
       THEN [raw |-> NCRESULT_ERR, zs |-> zs]
       ELSE [raw |-> NCRESULT_OK,
             zs |-> (zs \ {old}) \cup
                      {Spliced(old, fam, Index(Remove(old, fam), targ))}]

\* the planes a family is moved next to: the plane itself, or a plane of
\* its pile outside the family
Targets(n) ==
    {n} \cup (Range(PileOf(zorder, n)) \ Family(boundto, {n}))

\* a move_family_bottom that forwards to the native move to the top
NcPlane_move_family_bottom_as_top(n) ==
    /\ zorder' = ncplane_move_family_top(boundto, zorder, n)
    /\ TreeCall("NcPlane.move_family_bottom", n, 0, Ret("unit", 0), n)
    /\ UNCHANGED boundto

NcPlane_move_family_bottom(n) ==
    /\ zorder' = ncplane_move_family_bottom(boundto, zorder, n)
    /\ TreeCall("NcPlane.move_family_bottom", n, 0, Ret("unit", 0), n)
    /\ UNCHANGED boundto

NcPlane_move_family_top(n) ==
    /\ zorder' = ncplane_move_family_top(boundto, zorder, n)
    /\ TreeCall("NcPlane.move_family_top", n, 0, Ret("unit", 0), n)
    /\ UNCHANGED boundto

NcPlane_move_family_above(n) ==
    \E above \in Targets(n) :
        LET a == ncplane_move_family_above(boundto, zorder, n, above) IN
        /\ zorder' = a.zs
        /\ TreeCall("NcPlane.move_family_above", n, a.raw, unit(a.raw), above)
        /\ UNCHANGED boundto

NcPlane_move_family_below(n) ==
    \E below \in Targets(n) :
        LET a == ncplane_move_family_below(boundto, zorder, n, below) IN
        /\ zorder' = a.zs
        /\ TreeCall("NcPlane.move_family_below", n, a.raw, unit(a.raw), below)
        /\ UNCHANGED boundto

InitTree == call = NoCall /\ LifeInit /\ PileInit /\ GeoInit /\ RestInit

NextTree ==
    \E n \in TreePlanes :
        \/ NcPlane_reparent(n)
        \/ NcPlane_reparent_family(n)
        \/ NcPlane_move_family_top(n)
        \/ NcPlane_move_family_bottom(n)
        \/ NcPlane_move_family_above(n)
        \/ NcPlane_move_family_below(n)

SpecTree == InitTree /\ [][NextTree]_vars

SelfReparent(n) ==
    /\ call'.op = "NcPlane.reparent"
    /\ call'.h = n
    /\ call'.arg = n

\* what the documentation promises of a plane reparented to itself
SelfReparentEffect(n) ==
    IF boundto[n] = n
    THEN /\ call'.res.kind = "Ok"
         /\ boundto' = boundto
         /\ zorder' = zorder
    ELSE /\ call'.res.kind = "Ok"
         /\ boundto'[n] = n
         /\ <<n>> \in zorder'
         /\ \A c \in TreePlanes \ {n} :
               boundto'[c] = IF boundto[c] = n THEN boundto[n] ELSE boundto[c]

\* C11 as stated: a plane reparented to itself is left alone, with success,
\* when it is the root of a pile, and becomes the root of a new pile when
\* it is not.
C11_SelfReparent ==
    [][\A n \in TreePlanes : SelfReparent(n) => SelfReparentEffect(n)]_vars

\* C11: a plane other than the standard plane that is reparented to itself
\* is left alone, with success, when it is the root of a pile, and becomes
\* the root of a new pile, the planes bound to it going to its former
\* parent, when it is not; the standard plane, the root of its pile, is
\* refused with an error and the tree and the z-order stay as they were.
C11_SelfReparentButStd ==
    [][\A n \in TreePlanes :
          SelfReparent(n) =>
             IF n = TreeStd
             THEN /\ call'.res.kind = "Err"
                  /\ boundto' = boundto
                  /\ zorder' = zorder
             ELSE SelfReparentEffect(n)]_vars

C11_Witness ==
    /\ call.op = "NcPlane.reparent"
    /\ call.h = "C"
    /\ call.arg = "C"
    /\ call.res.kind = "Ok"
    /\ boundto["C"] = "C"
    /\ boundto["E"] = "A"
    /\ <<"C">> \in zorder

FamilyMoves ==
    {"NcPlane.move_family_top", "NcPlane.move_family_bottom",
     "NcPlane.move_family_above", "NcPlane.move_family_below"}

\* where the family block fam sits in z after the move named m
Reinserted(m, z, fam, targ) ==
    LET i == Index(z, targ)
        first == CHOOSE j \in 1..Len(z) :
                    z[j] \in fam /\ \A k \in 1..(j - 1) : z[k] \notin fam
    IN CASE m = "NcPlane.move_family_top" -> z = Keep(z, fam) \o Remove(z, fam)
         [] m = "NcPlane.move_family_bottom" ->
                z = Remove(z, fam) \o Keep(z, fam)
         [] m = "NcPlane.move_family_above" ->
                i = first + Cardinality(fam)
         [] m = "NcPlane.move_family_below" -> i = first - 1

FamilyMoved(n) ==
    LET fam == Family(boundto, {n})
        old == PileOf(zorder, n)
        new == PileOf(zorder', n)
    IN /\ boundto' = boundto
       /\ zorder' \ {new} = zorder \ {old}
       /\ Keep(new, fam) = Keep(old, fam)
       /\ Remove(new, fam) = Remove(old, fam)
       /\ \A i, j \in 1..Len(new) :
             (i <= j /\ new[i] \in fam /\ new[j] \in fam) =>
                \A k \in i..j : new[k] \in fam
       /\ Reinserted(call'.op, new, fam, call'.arg)

FamilyExample(m, n) ==
    /\ zorder = {<<"A", "B", "C", "D", "E">>}
    /\ Family(boundto, {"C"}) = {"C", "E"}
    /\ call'.op = m
    /\ call'.h = n

\* C17: the four family moves take the plane and every plane bound to it
\* out of the z-order and put them back as one block, at the top, at the
\* bottom, just above or just below the target, the order among the moved
\* planes and among the others staying as it was; with E bound to C and
\* the z-order A B C D E, move_family_bottom on C gives A B D C E and
\* move_family_top on C gives C E A B D.
C17_FamilyMoves ==
    [][/\ \A n \in TreePlanes :
             (/\ call'.op \in FamilyMoves
              /\ call'.h = n
              /\ call'.res.kind # "Err") => FamilyMoved(n)
       /\ FamilyExample("NcPlane.move_family_bottom", "C") =>
             zorder' = {<<"A", "B", "D", "C", "E">>}
       /\ FamilyExample("NcPlane.move_family_top", "C") =>
             zorder' = {<<"C", "E", "A", "B", "D">>}]_vars

C17_Witness ==
    /\ call.op = "NcPlane.move_family_bottom"
    /\ call.h = "C"
    /\ boundto["E"] = "C"
    /\ zorder = {<<"A", "B", "D", "C", "E">>}

----------------------------------------------------------------------------
(* SpecMerge: two one-row planes, one merged down onto the other.  What    *)
(* the native library does to the cells is taken from the methods'         *)
(* documentation.                                                          *)

None == <<>>
Some(v) == <<v>>
unwrap_or(o, d) == IF o = None THEN d ELSE o[1]

CellsOf(g) == (0..(g.rows - 1)) \X (0..(g.cols - 1))
BlankCells(g) == [c \in CellsOf(g) |-> Blank]

\* the character each plane is written with
GlyphOf(pl) == IF pl = "std" THEN 1 ELSE 2

\* a glyph of the upper plane hides the one below; a blank cell does not
Over(top, under) == IF top # Blank THEN top ELSE under

Written(r, cs, cur) == [cells |-> cs, raw |-> r, cur |-> cur]

\* native: the cell at (y, x) is replaced and the cursor left after it
ncplane_putchar_yx(pl, y, x, ch) ==
    IF <<y, x>> \in CellsOf(geom[pl])
    THEN Written(1, [cells[pl] EXCEPT ![<<y, x>>] = ch], Pos(y, x + 1))
    ELSE Written(NCRESULT_ERR, cells[pl], cursor[pl])

\* the cell of src that lies over the cell c of dst on the screen
Above(src, dst, c) ==
    <<c[1] + geom[dst].y - geom[src].y, c[2] + geom[dst].x - geom[src].x>>

\* native: src is merged down onto dst where the two intersect; where they
\* do not, dst is not changed, and that is not an error
ncplane_mergedown_simple(src, dst) ==
    Written(NCRESULT_OK,
            [c \in DOMAIN cells[dst] |->
                IF Above(src, dst, c) \in DOMAIN cells[src]
                THEN Over(cells[src][Above(src, dst, c)], cells[dst][c])
                ELSE cells[dst][c]],
            cursor[dst])

\* native: the subregion of src is merged down onto dst at the target
\* origin; -1 stands for the cursor position, a length of 0 goes through
\* the boundary; a subregion not contained in src, or projected outside
\* dst, is an error
ncplane_mergedown(src, dst, by, bx, ly, lx, dy, dx) ==
    LET sy == IF by = 0 - 1 THEN cursor[src].y ELSE by
        sx == IF bx = 0 - 1 THEN cursor[src].x ELSE bx
        ny == IF ly = 0 THEN geom[src].rows - sy ELSE ly
        nx == IF lx = 0 THEN geom[src].cols - sx ELSE lx
        ty == IF dy = 0 - 1 THEN cursor[dst].y ELSE dy
        tx == IF dx = 0 - 1 THEN cursor[dst].x ELSE dx
        ok == /\ <<sy, sx>> \in CellsOf(geom[src])
              /\ sy + ny <= geom[src].rows
              /\ sx + nx <= geom[src].cols
              /\ <<ty, tx>> \in CellsOf(geom[dst])
              /\ ty + ny <= geom[dst].rows
              /\ tx + nx <= geom[dst].cols
    IN IF ok
       THEN Written(NCRESULT_OK,
                    [c \in DOMAIN cells[dst] |->
                        IF /\ c[1] \in ty..(ty + ny - 1)
                           /\ c[2] \in tx..(tx + nx - 1)
                        THEN Over(cells[src][<<c[1] - ty + sy, c[2] - tx + sx>>],
                                  cells[dst][c])
                        ELSE cells[dst][c]],
                    cursor[dst])
       ELSE Written(NCRESULT_ERR, cells[dst], cursor[dst])

\* native: the plane goes to the top of its pile
ncplane_move_top(zs, n) ==
    LET old == PileOf(zs, n)
    IN (zs \ {old}) \cup {<<n>> \o Remove(old, {n})}

MergeCall(m, self, r, res, source) ==
    /\ call' = [op |-> m, h |-> self, raw |-> r, res |-> res, arg |-> source]
    /\ UNCHANGED <<lifeVars, pileVars, exists, term, boundto, scrolling, ctx, envVars>>

NcPlane_putchar_yx(pl) ==
    \E x \in 0..1 :
        LET a == ncplane_putchar_yx(pl, 0, x, GlyphOf(pl)) IN
        /\ cells' = [cells EXCEPT ![pl] = a.cells]
        /\ cursor' = [cursor EXCEPT ![pl] = a.cur]
        /\ MergeCall("NcPlane.putchar_yx", pl, a.raw, putchar_yx(a.raw), pl)
        /\ UNCHANGED <<geom, zorder>>

\* the plane is moved along the row of the standard plane
NcPlane_move_yx_in_row(pl) ==
    \E x \in 0..2 :
        LET a == ncplane_move_yx(pl, geom[pl], 0, x) IN
        /\ geom' = [geom EXCEPT ![pl] = a.g]
        /\ MergeCall("NcPlane.move_yx", pl, a.raw, unit(a.raw), pl)
        /\ UNCHANGED <<cells, cursor, zorder>>

NcPlane_move_top(pl) ==
    /\ zorder' = ncplane_move_top(zorder, pl)
    /\ MergeCall("NcPlane.move_top", pl, 0, Ret("unit", 0), pl)
    /\ UNCHANGED <<cells, cursor, geom>>

\* a mergedown_simple that merges at the origin of the destination,
\* wherever the two planes are
NcPlane_mergedown_simple_at_origin(self) ==
    \E source \in Planes \ {self} :
        LET a == ncplane_mergedown(source, self, 0, 0, 0, 0, 0, 0) IN
        /\ cells' = [cells EXCEPT ![self] = a.cells]
        /\ MergeCall("NcPlane.mergedown_simple", self, a.raw, unit(a.raw),
                     source)
        /\ UNCHANGED <<cursor, geom, zorder>>

NcPlane_mergedown_simple(self) ==
    \E source \in Planes \ {self} :
        LET a == ncplane_mergedown_simple(source, self) IN
        /\ cells' = [cells EXCEPT ![self] = a.cells]
        /\ MergeCall("NcPlane.mergedown_simple", self, a.raw, unit(a.raw),
                     source)
        /\ UNCHANGED <<cursor, geom, zorder>>

SrcX == {None, Some(0), Some(1)}
LenX == {None, Some(1)}

\* a mergedown that hands the planes to the native call the other way round
NcPlane_mergedown_swapped(self) ==
    \E source \in Planes \ {self}, beg_src_x \in SrcX, len_x \in LenX,
       dst_x \in SrcX :
        LET a == ncplane_mergedown(self, source,
                                   AsI32(unwrap_or(Some(0), U32Max)),
                                   AsI32(unwrap_or(beg_src_x, U32Max)),
                                   unwrap_or(None, 0), unwrap_or(len_x, 0),
                                   AsI32(unwrap_or(Some(0), U32Max)),
                                   AsI32(unwrap_or(dst_x, U32Max)))
        IN
        /\ cells' = [cells EXCEPT ![source] = a.cells]
        /\ MergeCall("NcPlane.mergedown", self, a.raw, unit(a.raw), source)
        /\ UNCHANGED <<cursor, geom, zorder>>

NcPlane_mergedown(self) ==
    \E source \in Planes \ {self}, beg_src_x \in SrcX, len_x \in LenX,
       dst_x \in SrcX :
        LET a == ncplane_mergedown(source, self,
                                   AsI32(unwrap_or(Some(0), U32Max)),
                                   AsI32(unwrap_or(beg_src_x, U32Max)),
                                   unwrap_or(None, 0), unwrap_or(len_x, 0),
                                   AsI32(unwrap_or(Some(0), U32Max)),
                                   AsI32(unwrap_or(dst_x, U32Max)))
        IN
        /\ cells' = [cells EXCEPT ![self] = a.cells]
        /\ MergeCall("NcPlane.mergedown", self, a.raw, unit(a.raw), source)
        /\ UNCHANGED <<cursor, geom, zorder>>

\* two planes of one row and two columns, both blank, the ordinary plane
\* lying over the standard plane
RowGeom == Geom(0, 0, 1, 2)

InitMerge ==
    /\ call = NoCall
    /\ LifeInit /\ PileInit
    /\ exists = [pl \in Planes |-> TRUE]
    /\ geom = [pl \in Planes |-> RowGeom]
    /\ term = Size(1, 2)
    /\ boundto = [pl \in Planes |-> "std"]
    /\ zorder = {<<"pl", "std">>}
    /\ cells = [pl \in Planes |-> BlankCells(RowGeom)]
    /\ cursor = [pl \in Planes |-> Pos(0, 0)]
    /\ scrolling = [pl \in Planes |-> FALSE]
    /\ ctx = "none"
    /\ EnvInit

NextMerge ==
    \E pl \in Planes :
        \/ NcPlane_putchar_yx(pl)
        \/ NcPlane_move_yx_in_row(pl)
        \/ NcPlane_move_top(pl)
        \/ NcPlane_mergedown_simple(pl)
        \/ NcPlane_mergedown(pl)

SpecMerge == InitMerge /\ [][NextMerge]_vars

Intersect(src, dst) ==
    \E c \in DOMAIN cells[dst] : Above(src, dst, c) \in DOMAIN cells[src]

Merged(m, dst, src) ==
    /\ call'.op = m
    /\ call'.h = dst
    /\ call'.arg = src

\* C12: mergedown_simple on a destination that the source does not
\* intersect returns success and leaves every cell of the destination as
\* it was.
C12_NoIntersectionNoChange ==
    [][\A dst \in Planes, src \in Planes :
          (/\ Merged("NcPlane.mergedown_simple", dst, src)
           /\ ~Intersect(src, dst))
          => /\ call'.res.kind = "Ok"
             /\ cells'[dst] = cells[dst]]_vars

C12_Witness ==
    /\ call.op = "NcPlane.mergedown_simple"
    /\ call.h = "std"
    /\ call.res.kind = "Ok"
    /\ ~Intersect("pl", "std")
    /\ cells["pl"][<<0, 0>>] # Blank
    /\ cells["std"][<<0, 0>>] = Blank

Merges == {"NcPlane.mergedown", "NcPlane.mergedown_simple"}

\* C13: in a mergedown or a mergedown_simple the receiver is the
\* destination and the argument the source: the cells, the cursor and the
\* position of the source stay as they were, the z-order of the two planes
\* is not touched, and a cell of the receiver that changes takes a glyph
\* that the source was showing.
C13_ReceiverIsDestination ==
    [][\A dst \in Planes, src \in Planes :
          (call'.op \in Merges /\ call'.h = dst /\ call'.arg = src)
          => /\ cells'[src] = cells[src]
             /\ cursor' = cursor
             /\ geom' = geom
             /\ zorder' = zorder
             /\ \A c \in DOMAIN cells[dst] :
                   cells'[dst][c] # cells[dst][c] =>
                      /\ cells'[dst][c] # Blank
                      /\ \E k \in DOMAIN cells[src] :
                            cells[src][k] = cells'[dst][c]]_vars

C13_Witness ==
    /\ call.op = "NcPlane.mergedown"
    /\ call.h = "std"
    /\ call.arg = "pl"
    /\ call.res.kind = "Ok"
    /\ cells["std"] = [c \in CellsOf(RowGeom) |-> GlyphOf("pl")]
    /\ cells["pl"][<<0, 0>>] = Blank
    /\ zorder = {<<"pl", "std">>}

----------------------------------------------------------------------------
(* SpecErase: one plane of two rows and two columns, written row by row    *)
(* and erased by region.  What the native library erases is taken     *)
(* from the documentation of erase_region, whose examples put the first    *)
(* erased cell of a non-zero length now on the starting cell, now next to  *)
(* it: the native call chooses.                                            *)

EraseGeom == Geom(0, 0, 2, 2)
Drawn == 1

\* the cells cleared along one axis of extent dim, from start, for len;
\* skip = 1 when the run begins next to the starting cell
Span(start, len, dim, skip) ==
    IF len = 0 THEN 0..(dim - 1)
    ELSE IF len > 0
    THEN (start + skip)..Min(start + skip + len - 1, dim - 1)
    ELSE ((start - skip) + len + 1)..(start - skip) \cap 0..(dim - 1)

\* native: -1 stands for the cursor position; it is an error if the
\* starting coordinate is not in the plane, but the ending coordinate may
\* be outside the plane
ncplane_erase_region(pl, ystart, xstart, ylen, xlen, skip) ==
    LET sy == IF ystart = 0 - 1 THEN cursor[pl].y ELSE ystart
        sx == IF xstart = 0 - 1 THEN cursor[pl].x ELSE xstart
    IN IF <<sy, sx>> \in CellsOf(geom[pl])
       THEN Written(NCRESULT_OK,
                    [c \in DOMAIN cells[pl] |->
                        IF /\ c[1] \in Span(sy, ylen, geom[pl].rows, skip)
                           /\ c[2] \in Span(sx, xlen, geom[pl].cols, skip)
                        THEN Blank ELSE cells[pl][c]],
                    cursor[pl])
       ELSE Written(NCRESULT_ERR, cells[pl], cursor[pl])

\* native: parameters exceeding the plane's dimensions are an error and
\* the cursor stays where it was
ncplane_cursor_move_yx(pl, y, x) ==
    IF <<y, x>> \in CellsOf(geom[pl])
    THEN Written(NCRESULT_OK, cells[pl], Pos(y, x))
    ELSE Written(NCRESULT_ERR, cells[pl], cursor[pl])

EraseCall(m, pl, r, res, args) ==
    /\ call' = [op |-> m, h |-> pl, raw |-> r, res |-> res, arg |-> args]
    /\ UNCHANGED <<lifeVars, pileVars, geoVars, treeVars, scrolling, ctx, envVars>>

\* native: the string is written from (y, x) on and the cursor left after
\* it; a glyph that does not fit in the line is an error
ncplane_putstr_yx(pl, y, x, n) ==
    IF <<y, x>> \in CellsOf(geom[pl]) /\ x + n <= geom[pl].cols
    THEN Written(n,
                 [c \in DOMAIN cells[pl] |->
                     IF c[1] = y /\ c[2] \in x..(x + n - 1)
                     THEN Drawn ELSE cells[pl][c]],
                 Pos(y, x + n))
    ELSE Written(NCRESULT_ERR, cells[pl], cursor[pl])

\* a string as wide as the plane is written on one of its rows
NcPlane_putstr_yx(pl) ==
    \E y \in 0..1 :
        LET a == ncplane_putstr_yx(pl, y, 0, geom[pl].cols) IN
        /\ cells' = [cells EXCEPT ![pl] = a.cells]
        /\ cursor' = [cursor EXCEPT ![pl] = a.cur]
        /\ EraseCall("NcPlane.putstr_yx", pl, a.raw, putstr_yx(a.raw), <<>>)

NcPlane_cursor_move_yx_to(pl) ==
    \E y \in {0}, x \in {1, 2} :
        LET a == ncplane_cursor_move_yx(pl, AsI32(y), AsI32(x)) IN
        /\ cursor' = [cursor EXCEPT ![pl] = a.cur]
        /\ EraseCall("NcPlane.cursor_move_yx", pl, a.raw, unit(a.raw), <<>>)
        /\ UNCHANGED cells

BegY == {None, Some(0), Some(2)}
BegX == {None, Some(0), Some(1), Some(U32Max)}
LenY == {0, 1}
LenXs == {0 - 1, 0, 1, 3}

\* an erase_region that hands the two lengths over the other way round
NcPlane_erase_region_swapped(pl) ==
    \E beg_y \in BegY, beg_x \in BegX, len_y \in LenY, len_x \in LenXs,
       skip \in {0, 1} :
        LET a == ncplane_erase_region(pl,
                                      AsI32(unwrap_or(beg_y, U32Max)),
                                      AsI32(unwrap_or(beg_x, U32Max)),
                                      len_x, len_y, skip)
        IN
        /\ cells' = [cells EXCEPT ![pl] = a.cells]
        /\ EraseCall("NcPlane.erase_region", pl, a.raw, unit(a.raw),
                     <<beg_y, beg_x, len_y, len_x>>)
        /\ UNCHANGED cursor

NcPlane_erase_region(pl) ==
    \E beg_y \in BegY, beg_x \in BegX, len_y \in LenY, len_x \in LenXs,
       skip \in {0, 1} :
        LET a == ncplane_erase_region(pl,
                                      AsI32(unwrap_or(beg_y, U32Max)),
                                      AsI32(unwrap_or(beg_x, U32Max)),
                                      len_y, len_x, skip)
        IN
        /\ cells' = [cells EXCEPT ![pl] = a.cells]
        /\ EraseCall("NcPlane.erase_region", pl, a.raw, unit(a.raw),
                     <<beg_y, beg_x, len_y, len_x>>)
        /\ UNCHANGED cursor

InitErase ==
    /\ call = NoCall
    /\ LifeInit /\ PileInit /\ TreeInit
    /\ exists = [pl \in Planes |-> TRUE]
    /\ geom = [pl \in Planes |-> EraseGeom]
    /\ term = Size(2, 2)
    /\ cells = [pl \in Planes |-> BlankCells(EraseGeom)]
    /\ cursor = [pl \in Planes |-> Pos(0, 0)]
    /\ scrolling = [pl \in Planes |-> FALSE]
    /\ ctx = "none"
    /\ EnvInit

NextErase ==
    \/ NcPlane_putstr_yx("pl")
    \/ NcPlane_cursor_move_yx_to("pl")
    \/ NcPlane_erase_region("pl")

SpecErase == InitErase /\ [][NextErase]_vars

Max(a, b) == IF a > b THEN a ELSE b

\* the start the caller names: the cursor for None, v for Some(v)
NamedStart(o, cur) == IF o = None THEN cur ELSE o[1]

\* the start the native call takes
TakenStart(o, cur) ==
    IF AsI32(unwrap_or(o, U32Max)) = 0 - 1
    THEN cur ELSE AsI32(unwrap_or(o, U32Max))

ErasedRegion(pl) == call'.op = "NcPlane.erase_region" /\ call'.h = pl

Cleared(pl, Ey, Ex) ==
    cells'[pl] = [c \in DOMAIN cells[pl] |->
                    IF c[1] \in Ey /\ c[2] \in Ex
                    THEN Blank ELSE cells[pl][c]]

\* C14: an erase_region whose starting coordinate, as the caller names it,
\* is outside the plane returns an error and erases nothing, whatever the
\* lengths; with both lengths 0 and a start inside the plane (always so
\* for (0, 0), and for None/None when the cursor is in bounds) it clears
\* the whole plane.
C14_IllegalStartIsError ==
    [][ErasedRegion("pl") =>
          LET a == call'.arg
              start == <<NamedStart(a[1], cursor["pl"].y),
                         NamedStart(a[2], cursor["pl"].x)>>
          IN IF start \in CellsOf(geom["pl"])
             THEN (a[3] = 0 /\ a[4] = 0) =>
                     /\ call'.res.kind = "Ok"
                     /\ cells'["pl"] = BlankCells(geom["pl"])
             ELSE /\ call'.res.kind = "Err"
                  /\ cells'["pl"] = cells["pl"]]_vars

\* the cells the claim has cleared along one axis
StatedSpan(start, len, dim) ==
    IF len = 0 THEN start..(dim - 1)
    ELSE IF len > 0 THEN start..Min(start + len - 1, dim - 1)
    ELSE Max(start + len, 0)..(start - 1)

Allowed(start, len, dim, E) ==
    IF len = 0 THEN E = 0..(dim - 1)
    ELSE IF len > 0
    THEN \E first \in {start, start + 1} :
            E = first..Min(first + len - 1, dim - 1)
    ELSE \E last \in {start, start - 1} :
            E = Max(last + len + 1, 0)..last

----------------------------------------------------------------------------
(* SpecResize: one plane, written to cell by cell and resized.  What the   *)
(* native library keeps of the content is taken from the documentation of  *)
(* resize.                                                                 *)

ResizeGeom == Geom(0, 0, 2, 2)

\* the characters written into the plane
Glyphs == {1, 2}

KeepYs == 0..1
KeepLenYs == 0..2
KeepLenXs == 0..1
ResizeOffs == {0 - 1, 0}
ResizeLenYs == 1..2
ResizeLenXs == 0..1

\* native: the kept region stays where it is; the upper-left corner of the
\* resized plane lies at (keep_y + y_off, keep_x + x_off) of the old one,
\* and what the resized plane has outside the kept region is blank
ncplane_resize_cells(pl, a, keep_y, keep_x, keep_len_y, keep_len_x, y_off, x_off) ==
    IF a.raw < 0
    THEN cells[pl]
    ELSE [c \in CellsOf(a.g) |->
             LET s == <<c[1] + keep_y + y_off, c[2] + keep_x + x_off>> IN
             IF /\ s[1] \in keep_y..(keep_y + keep_len_y - 1)
                /\ s[2] \in keep_x..(keep_x + keep_len_x - 1)
                /\ s \in DOMAIN cells[pl]
             THEN cells[pl][s]
             ELSE Blank]

ResizeCall(m, pl, r, res, args) ==
    /\ call' = [op |-> m, h |-> pl, raw |-> r, res |-> res, arg |-> args]
    /\ UNCHANGED <<lifeVars, pileVars, exists, term, treeVars, scrolling, ctx, envVars>>

NcPlane_putchar_yx_glyph(pl) ==
    \E y \in 0..1, x \in {0}, ch \in Glyphs :
        LET a == ncplane_putchar_yx(pl, y, x, ch) IN
        /\ cells' = [cells EXCEPT ![pl] = a.cells]
        /\ cursor' = [cursor EXCEPT ![pl] = a.cur]
        /\ ResizeCall("NcPlane.putchar_yx", pl, a.raw, putchar_yx(a.raw),
                      <<y, x, ch>>)
        /\ UNCHANGED geom

\* a resize that hands keep_y and keep_x over the other way round
NcPlane_resize_kept_swapped(pl) ==
    \E keep_y \in KeepYs, keep_x \in {0},
       keep_len_y \in KeepLenYs, keep_len_x \in KeepLenXs,
       y_off \in ResizeOffs, x_off \in {0},
       y_len \in ResizeLenYs, x_len \in ResizeLenXs :
        LET a == ncplane_resize(pl, geom[pl], AsI32(keep_x), AsI32(keep_y),
                                keep_len_y, keep_len_x,
                                AsI32(AsU32(y_off)), AsI32(AsU32(x_off)),
                                y_len, x_len)
        IN
        /\ InRange(a.g)
        /\ geom' = [geom EXCEPT ![pl] = a.g]
        /\ cells' = [cells EXCEPT
                        ![pl] = ncplane_resize_cells(pl, a, AsI32(keep_x),
                                                     AsI32(keep_y),
                                                     keep_len_y, keep_len_x,
                                                     y_off, x_off)]
        /\ ResizeCall("NcPlane.resize", pl, a.raw, unit(a.raw),
                      <<keep_y, keep_x, keep_len_y, keep_len_x,
                        y_off, x_off, y_len, x_len>>)
        /\ UNCHANGED cursor

NcPlane_resize_kept(pl) ==
    \E keep_y \in KeepYs, keep_x \in {0},
       keep_len_y \in KeepLenYs, keep_len_x \in KeepLenXs,
       y_off \in ResizeOffs, x_off \in {0},
       y_len \in ResizeLenYs, x_len \in ResizeLenXs :
        LET a == ncplane_resize(pl, geom[pl], AsI32(keep_y), AsI32(keep_x),
                                keep_len_y, keep_len_x,
                                AsI32(AsU32(y_off)), AsI32(AsU32(x_off)),
                                y_len, x_len)
        IN
        /\ InRange(a.g)
        /\ geom' = [geom EXCEPT ![pl] = a.g]
        /\ cells' = [cells EXCEPT
                        ![pl] = ncplane_resize_cells(pl, a, AsI32(keep_y),
                                                     AsI32(keep_x),
                                                     keep_len_y, keep_len_x,
                                                     y_off, x_off)]
        /\ ResizeCall("NcPlane.resize", pl, a.raw, unit(a.raw),
                      <<keep_y, keep_x, keep_len_y, keep_len_x,
                        y_off, x_off, y_len, x_len>>)
        /\ UNCHANGED cursor

InitResize ==
    /\ call = NoCall
    /\ LifeInit /\ PileInit /\ TreeInit
    /\ exists = [pl \in Planes |-> TRUE]
    /\ geom = [pl \in Planes |-> ResizeGeom]
    /\ term = Size(2, 2)
    /\ cells = [pl \in Planes |-> BlankCells(ResizeGeom)]
    /\ cursor = [pl \in Planes |-> Pos(0, 0)]
    /\ scrolling = [pl \in Planes |-> FALSE]
    /\ ctx = "none"
    /\ EnvInit

NextResize ==
    \/ NcPlane_putchar_yx_glyph("pl")
    \/ NcPlane_resize_kept("pl")

SpecResize == InitResize /\ [][NextResize]_vars

\* the cases in which resize is said to fail, for the arguments a of the
\* call on a plane of geometry g
Refused(g, a) ==
    \/ (a[3] = 0) # (a[4] = 0)
    \/ a[7] < a[3]
    \/ a[8] < a[4]
    \/ <<a[1], a[2]>> \notin CellsOf(g)

\* the cells of the kept region that the plane has
KeptRegion(g, a) ==
    {s \in CellsOf(g) : /\ s[1] \in a[1]..(a[1] + a[3] - 1)
                        /\ s[2] \in a[2]..(a[2] + a[4] - 1)}

\* where the cell s of the old plane lies in the resized plane
NewCoord(a, s) == <<s[1] - a[1] - a[5], s[2] - a[2] - a[6]>>

ResizeFailed ==
    /\ call'.res.kind = "Err"
    /\ geom'[call'.h] = geom[call'.h]
    /\ cells'[call'.h] = cells[call'.h]

----------------------------------------------------------------------------
(* SpecText: strings written to a plane ten columns wide and two rows      *)
(* high, with scrolling disabled or enabled.  A string is modelled by the  *)
(* number of columns it takes; what the native library does with it is     *)
(* taken from the documentation of putstr and set_scrolling.               *)

TextCols == 10
TextRows == 2
TextGeom == Geom(0, 0, TextRows, TextCols)

\* native: the rows move up by one and the last row is blank
ScrolledUp(g, cs) ==
    [c \in DOMAIN cs |->
        IF c[1] + 1 < g.rows THEN cs[<<c[1] + 1, c[2]>>] ELSE Blank]

\* native: n columns are written one after the other from the cursor on,
\* w.raw counting those written; at the end of the line a scrolling plane
\* goes on with the next line, scrolling up on its last one, and a plane
\* that does not scroll stops with the non-positive count
RECURSIVE PutCols(_, _, _, _)
PutCols(g, scroll, w, n) ==
    IF n = 0
    THEN w
    ELSE IF w.cur.x < g.cols
    THEN PutCols(g, scroll,
                 Written(w.raw + 1,
                         [w.cells EXCEPT ![<<w.cur.y, w.cur.x>>] = Drawn],
                         Pos(w.cur.y, w.cur.x + 1)),
                 n - 1)
    ELSE IF ~scroll
    THEN Written(0 - w.raw, w.cells, w.cur)
    ELSE IF w.cur.y + 1 < g.rows
    THEN PutCols(g, scroll, Written(w.raw, w.cells, Pos(w.cur.y + 1, 0)), n)
    ELSE PutCols(g, scroll,
                 Written(w.raw, ScrolledUp(g, w.cells), Pos(w.cur.y, 0)), n)

ncplane_putstr(pl, n) ==
    PutCols(geom[pl], scrolling[pl], Written(0, cells[pl], cursor[pl]), n)

\* native: no more than num_bytes bytes of the string are written
ncplane_putnstr(pl, num_bytes, n) ==
    ncplane_putstr(pl, Min(num_bytes, n))

\* native: the scrolling behaviour is set and the previous one returned
ncplane_set_scrolling(pl, scroll) == scrolling[pl]

TextCall(m, pl, r, res, args) ==
    /\ call' = [op |-> m, h |-> pl, raw |-> r, res |-> res, arg |-> args]
    /\ UNCHANGED <<lifeVars, pileVars, geoVars, treeVars, ctx, envVars>>

\* the widths of the strings written
StrCols == {1, TextCols, TextCols + 1}

NcPlane_putstr(pl) ==
    \E string \in StrCols :
        LET a == ncplane_putstr(pl, string) IN
        /\ cells' = [cells EXCEPT ![pl] = a.cells]
        /\ cursor' = [cursor EXCEPT ![pl] = a.cur]
        /\ TextCall("NcPlane.putstr", pl, a.raw, putstr(a.raw), <<string>>)
        /\ UNCHANGED scrolling

NcPlane_putnstr(pl) ==
    \E num_bytes \in {1, TextCols + 1}, string \in {TextCols + 1} :
        LET a == ncplane_putnstr(pl, num_bytes, string) IN
        /\ cells' = [cells EXCEPT ![pl] = a.cells]
        /\ cursor' = [cursor EXCEPT ![pl] = a.cur]
        /\ TextCall("NcPlane.putnstr", pl, a.raw, putnstr(a.raw),
                    <<Min(num_bytes, string)>>)
        /\ UNCHANGED scrolling

NcPlane_cursor_move_yx_in_text(pl) ==
    \E y \in 0..1, x \in {0} :
        LET a == ncplane_cursor_move_yx(pl, AsI32(y), AsI32(x)) IN
        /\ cursor' = [cursor EXCEPT ![pl] = a.cur]
        /\ TextCall("NcPlane.cursor_move_yx", pl, a.raw, unit(a.raw),
                    <<y, x>>)
        /\ UNCHANGED <<cells, scrolling>>

NcPlane_set_scrolling(pl) ==
    \E scroll \in BOOLEAN :
        LET was == ncplane_set_scrolling(pl, scroll) IN
        /\ scrolling' = [scrolling EXCEPT ![pl] = scroll]
        /\ TextCall("NcPlane.set_scrolling", pl, IF was THEN 1 ELSE 0,
                    Ret("bool", IF was THEN 1 ELSE 0), <<scroll>>)
        /\ UNCHANGED <<cells, cursor>>

InitText ==
    /\ call = NoCall
    /\ LifeInit /\ PileInit /\ TreeInit
    /\ exists = [pl \in Planes |-> TRUE]
    /\ geom = [pl \in Planes |-> TextGeom]
    /\ term = Size(TextRows, TextCols)
    /\ cells = [pl \in Planes |-> BlankCells(TextGeom)]
    /\ cursor = [pl \in Planes |-> Pos(0, 0)]
    /\ scrolling = [pl \in Planes |-> FALSE]
    /\ ctx = "none"
    /\ EnvInit

NextText ==
    \/ NcPlane_putstr("pl")
    \/ NcPlane_putnstr("pl")
    \/ NcPlane_cursor_move_yx_in_text("pl")
    \/ NcPlane_set_scrolling("pl")

SpecText == InitText /\ [][NextText]_vars

\* a step that writes a string
Writes == call'.op \in {"NcPlane.putstr", "NcPlane.putnstr"}

\* the string written does not fit in what is left of the current line
Overflows == cursor[call'.h].x + call'.arg[1] > geom[call'.h].cols

\* C18: writing text that overflows the current line is an error on a
\* plane with scrolling disabled, as every plane at first is, and succeeds
\* on a plane with scrolling enabled; on the 10-column, 2-row plane that
\* does not scroll, a 10-column string written at the origin succeeds and
\* an 11-column string fails, both leaving the cursor at the end of the
\* first line.
C18_OverflowIsError ==
    [][Writes /\ Overflows =>
          IF scrolling[call'.h]
          THEN call'.res = Ok("u32", call'.arg[1])
          ELSE call'.res.kind = "Err"]_vars

\* C18, the example alone: on the plane that does not scroll, with the
\* cursor at the origin, putstr of 10 columns returns Ok(10), putstr of 11
\* columns fails after 10, and the cursor is left at (0, 10) either way
C18_Example ==
    [][/\ call'.op = "NcPlane.putstr"
       /\ ~scrolling[call'.h]
       /\ cursor[call'.h] = Pos(0, 0)
       /\ call'.arg[1] >= TextCols
       => /\ cursor'[call'.h] = Pos(0, TextCols)
          /\ call'.arg[1] = TextCols => call'.res = Ok("u32", TextCols)
          /\ call'.arg[1] = TextCols + 1 => call'.res = Err(0 - TextCols)]_vars

\* the columns a failing write puts down before it stops: what is left of
\* the current line
ColsBefore == Max(0, geom[call'.h].cols - cursor[call'.h].x)

\* C19: a text-writing call that fails after k >= 0 columns were written
\* returns an error, never a success value, and the error carries the
\* native non-positive return value -k, from which k is recovered.
C19_FailureCarriesColumns ==
    [][Writes /\ ~scrolling[call'.h] /\ Overflows =>
          /\ call'.raw = 0 - ColsBefore
          /\ call'.res = Err(0 - ColsBefore)]_vars

----------------------------------------------------------------------------
(* SpecContext: the message a method hands to error! with the native       *)
(* result, which the error returned carries as its context.  ctx is the    *)
(* operation that message names after a call that failed.                  *)

\* the operation named by the message of each method, as written in it
Msg_NcDirect_clear == "NcDirect.clear"
Msg_NcDirect_flush == "NcDirect.clear"
Msg_NcDirect_set_fg_palindex == "NcDirect.set_fg_palindex"
Msg_NcDirect_set_bg_palindex == "NcDirect.set_fg_palindex"
Msg_NcPlane_set_base_cell == "NcPlane.base"
Msg_NcPlane_putstr == "NcPlane.putstr"
Msg_NcPlane_putnstr == "NcPlane.puntstr"
Msg_NcPlane_cursor_move_yx == "NcPlane.move_yx"
Msg_NcPlane_scrollup == ""

\* error![res, msg]: the error built for a negative res carries msg
with_msg(res, msg) == IF res.kind = "Err" THEN msg ELSE "none"

CtxCall(m, h, r, res, msg) ==
    /\ call' = [op |-> m, h |-> h, raw |-> r, res |-> res, arg |-> <<>>]
    /\ ctx' = with_msg(res, msg)
    /\ UNCHANGED <<lifeVars, pileVars, geoVars, treeVars, envVars>>

\* a method of NcDirect, whose native call fails or succeeds
DirectCall(m, msg) ==
    /\ \E r \in {NCRESULT_ERR, NCRESULT_OK} : CtxCall(m, "d1", r, unit(r), msg)
    /\ UNCHANGED cellVars

NcDirect_clear_ctx == DirectCall("NcDirect.clear", Msg_NcDirect_clear)

NcDirect_flush_ctx == DirectCall("NcDirect.flush", Msg_NcDirect_flush)

NcDirect_set_fg_palindex_ctx ==
    DirectCall("NcDirect.set_fg_palindex", Msg_NcDirect_set_fg_palindex)

NcDirect_set_bg_palindex_ctx ==
    DirectCall("NcDirect.set_bg_palindex", Msg_NcDirect_set_bg_palindex)

\* the base cell is set, unless the native call fails
NcPlane_set_base_cell_ctx(pl) ==
    /\ \E r \in {NCRESULT_ERR, NCRESULT_OK} :
          CtxCall("NcPlane.set_base_cell", pl, r, unit(r),
                  Msg_NcPlane_set_base_cell)
    /\ UNCHANGED cellVars

NcPlane_putstr_ctx(pl) ==
    \E string \in {TextCols} :
        LET a == ncplane_putstr(pl, string) IN
        /\ cells' = [cells EXCEPT ![pl] = a.cells]
        /\ cursor' = [cursor EXCEPT ![pl] = a.cur]
        /\ CtxCall("NcPlane.putstr", pl, a.raw, putstr(a.raw),
                   Msg_NcPlane_putstr)
        /\ UNCHANGED scrolling

NcPlane_putnstr_ctx(pl) ==
    \E num_bytes \in {5}, string \in {TextCols} :
        LET a == ncplane_putnstr(pl, num_bytes, string) IN
        /\ cells' = [cells EXCEPT ![pl] = a.cells]
        /\ cursor' = [cursor EXCEPT ![pl] = a.cur]
        /\ CtxCall("NcPlane.putnstr", pl, a.raw, putnstr(a.raw),
                   Msg_NcPlane_putnstr)
        /\ UNCHANGED scrolling

NcPlane_cursor_move_yx_ctx(pl) ==
    \E y \in {0, 2}, x \in {0} :
        LET a == ncplane_cursor_move_yx(pl, AsI32(y), AsI32(x)) IN
        /\ cursor' = [cursor EXCEPT ![pl] = a.cur]
        /\ CtxCall("NcPlane.cursor_move_yx", pl, a.raw, unit(a.raw),
                   Msg_NcPlane_cursor_move_yx)
        /\ UNCHANGED <<cells, scrolling>>

NcPlane_set_scrolling_ctx(pl) ==
    \E scroll \in BOOLEAN :
        LET was == ncplane_set_scrolling(pl, scroll) IN
        /\ scrolling' = [scrolling EXCEPT ![pl] = scroll]
        /\ call' = [op |-> "NcPlane.set_scrolling", h |-> pl,
                    raw |-> IF was THEN 1 ELSE 0,
                    res |-> Ret("bool", IF was THEN 1 ELSE 0), arg |-> <<>>]
        /\ ctx' = "none"
        /\ UNCHANGED <<lifeVars, pileVars, geoVars, treeVars, cells, cursor,
                       envVars>>

\* native: a plane that does not scroll is not scrolled, which is an
\* error; otherwise the number of lines scrolled is returned
ncplane_scrollup(pl, r) ==
    IF ~scrolling[pl]
    THEN Written(NCRESULT_ERR, cells[pl], cursor[pl])
    ELSE IF r = 0
    THEN Written(0, cells[pl], cursor[pl])
    ELSE Written(1, ScrolledUp(geom[pl], cells[pl]), cursor[pl])

NcPlane_scrollup_ctx(pl) ==
    \E r \in 0..1 :
        LET a == ncplane_scrollup(pl, AsI32(r)) IN
        /\ cells' = [cells EXCEPT ![pl] = a.cells]
        /\ CtxCall("NcPlane.scrollup", pl, a.raw, scrollup(a.raw),
                   Msg_NcPlane_scrollup)
        /\ UNCHANGED <<cursor, scrolling>>

InitContext == InitText

NextContext ==
    \/ NcDirect_clear_ctx
    \/ NcDirect_flush_ctx
    \/ NcDirect_set_fg_palindex_ctx
    \/ NcDirect_set_bg_palindex_ctx
    \/ NcPlane_set_base_cell_ctx("pl")
    \/ NcPlane_putstr_ctx("pl")
    \/ NcPlane_putnstr_ctx("pl")
    \/ NcPlane_cursor_move_yx_ctx("pl")
    \/ NcPlane_set_scrolling_ctx("pl")
    \/ NcPlane_scrollup_ctx("pl")

SpecContext == InitContext /\ [][NextContext]_vars

\* C20: the error a failing NcDirect or NcPlane method returns names, as
\* its context, the method that was invoked.
C20_ContextNamesMethod == call.res.kind = "Err" => ctx = call.op

----------------------------------------------------------------------------
(* SpecProbe: two threads of the caller using one NcDirect session.  A     *)
(* method is entered, which forwards to its native call at once, and       *)
(* returns when the native call does.  Whether the threads take turns is   *)
(* the caller's choice, made once: the methods hold no lock.               *)

ProbeOps == {"NcDirect.check_pixel_support"}
InputOps == {"NcDirect.getc", "NcDirect.getc_nblock", "NcDirect.getc_blocking"}
RasterOps == {"NcDirect.raster_frame", "NcDirect.render_image"}

\* the caller's discipline: with serial, a thread calls into the session
\* only while no thread is in it
MayCall(t) == pc[t] = "idle" /\ (serial => \A u \in Threads : pc[u] = "idle")

Native(f, args) == [args |-> args, fn |-> f]

\* the method m begins on thread t and forwards to the native call
Enters(t, m, native) ==
    /\ MayCall(t)
    /\ pc' = [pc EXCEPT ![t] = m]
    /\ trace' = <<native>>
    /\ UNCHANGED <<call, lifeVars, pileVars, geoVars, treeVars, cellVars, ctx,
                   serial, caller>>

\* the native call of m returns r on thread t and the method returns res
Leaves(t, m, r, res) ==
    /\ pc[t] = m
    /\ pc' = [pc EXCEPT ![t] = "idle"]
    /\ call' = [op |-> m, h |-> "d1", raw |-> r, res |-> res, arg |-> <<t>>]
    /\ UNCHANGED <<lifeVars, pileVars, geoVars, treeVars, cellVars, ctx,
                   trace, serial, caller>>

\* a check_pixel_support that waits until no thread reads input or
\* rasterizes
NcDirect_check_pixel_support_locked(t) ==
    /\ \A u \in Threads : pc[u] \notin InputOps \cup RasterOps
    /\ Enters(t, "NcDirect.check_pixel_support",
              Native("ncdirect_check_pixel_support", <<>>))

NcDirect_check_pixel_support_enter(t) ==
    Enters(t, "NcDirect.check_pixel_support",
           Native("ncdirect_check_pixel_support", <<>>))

NcDirect_check_pixel_support_return(t) ==
    \E r \in {NCRESULT_ERR, 0, 1} :
        Leaves(t, "NcDirect.check_pixel_support", r, check_pixel_support(r))

\* `Some(v)` becomes the pointer to v, `None` the null pointer
AsPtr(o) == IF o = None THEN NULL ELSE Addr

NcDirect_getc_enter(t) ==
    \E time \in {None, Some(0)}, sigmask \in {None, Some(1)},
       input \in {None, Some(1)} :
        Enters(t, "NcDirect.getc",
               Native("ncdirect_getc",
                      <<AsPtr(time), AsPtr(sigmask), AsPtr(input)>>))

\* the raw values the native read hands back: the error sentinel, 0 on a
\* timeout, a letter, a surrogate and a value past the last code point;
\* the 32-bit word is written as the i32 of the same bits
GetcRaws == {NCRESULT_ERR, 0, 97, 55296, 1114112}

\* the words that are a char
IsChar(u) == u \in 0..55295 \/ u \in 57344..1114111

\* char::from_u32_unchecked(raw) followed by the test `c as u32 as i32 ==
\* NCRESULT_ERR`: a word that is no char, the error sentinel among them,
\* makes the conversion undefined behaviour, after which the test may see
\* the sentinel or be taken for false
getc(raw) ==
    IF IsChar(raw)
    THEN {Ok("char", raw)}
    ELSE {Ok("char", raw)} \cup (IF raw = NCRESULT_ERR
                                 THEN {Err(NCRESULT_ERR)} ELSE {})

NcDirect_getc_return(t) ==
    \E raw \in GetcRaws : \E res \in getc(raw) :
        Leaves(t, "NcDirect.getc", raw, res)

NcDirect_getc_nblock_enter(t) ==
    Enters(t, "NcDirect.getc_nblock", Native("ncdirect_getc_nblock", <<Addr>>))

NcDirect_getc_nblock_return(t) ==
    \E raw \in {0, 97} :
        Leaves(t, "NcDirect.getc_nblock", raw, Ret("char", raw))

NcDirect_getc_blocking_enter(t) ==
    Enters(t, "NcDirect.getc_blocking",
           Native("ncdirect_getc_blocking", <<Addr>>))

NcDirect_getc_blocking_return(t) ==
    \E raw \in {97} :
        Leaves(t, "NcDirect.getc_blocking", raw, Ret("char", raw))

NcDirect_raster_frame_enter(t) ==
    Enters(t, "NcDirect.raster_frame", Native("ncdirect_raster_frame", <<Addr>>))

NcDirect_raster_frame_return(t) ==
    \E r \in {NCRESULT_ERR, NCRESULT_OK} :
        Leaves(t, "NcDirect.raster_frame", r, unit(r))

NcDirect_render_image_enter(t) ==
    Enters(t, "NcDirect.render_image", Native("ncdirect_render_image", <<Addr>>))

NcDirect_render_image_return(t) ==
    \E r \in {NCRESULT_ERR, NCRESULT_OK} :
        Leaves(t, "NcDirect.render_image", r, unit(r))

InitProbe ==
    /\ call = NoCall
    /\ LifeInit /\ PileInit /\ GeoInit /\ TreeInit /\ CellInit
    /\ ctx = "none"
    /\ trace = <<>>
    /\ pc = [t \in Threads |-> "idle"]
    /\ serial \in BOOLEAN
    /\ caller = <<>>

NextProbe ==
    \E t \in Threads :
        \/ NcDirect_check_pixel_support_enter(t)
        \/ NcDirect_check_pixel_support_return(t)
        \/ NcDirect_getc_enter(t)
        \/ NcDirect_getc_return(t)
        \/ NcDirect_getc_nblock_enter(t)
        \/ NcDirect_getc_nblock_return(t)
        \/ NcDirect_getc_blocking_enter(t)
        \/ NcDirect_getc_blocking_return(t)
        \/ NcDirect_raster_frame_enter(t)
        \/ NcDirect_raster_frame_return(t)
        \/ NcDirect_render_image_enter(t)
        \/ NcDirect_render_image_return(t)

SpecProbe == InitProbe /\ [][NextProbe]_vars

\* the probe is in progress on one thread while another reads input or
\* rasterizes
Overlap ==
    \E t \in Threads, u \in Threads :
        pc[t] \in ProbeOps /\ pc[u] \in InputOps \cup RasterOps

C28_GetcErrIffSentinel ==
    [][call'.op = "NcDirect.getc" /\ pc # pc' =>
          IF call'.raw = NCRESULT_ERR
          THEN call'.res.kind = "Err"
          ELSE IsChar(call'.raw) /\ call'.res = Ok("char", call'.raw)]_vars

----------------------------------------------------------------------------
(* SpecOptions: the constructors of NcPlaneOptions, applied to arguments   *)
(* drawn from small sets.  A flags word is the set of its bits.            *)

\* NcPlaneOptions::HORALIGNED
HORALIGNED == {0}

\* c_api::ncresizecb_to_c: the callback in the form the native call takes
ncresizecb_to_c(resizecb) == resizecb

NcPlaneOptions_with_flags(y, x, rows, cols, resizecb, flags, margin_b, margin_r) ==
    [y |-> AsI32(y), x |-> AsI32(x), rows |-> rows, cols |-> cols,
     resizecb |-> ncresizecb_to_c(resizecb), flags |-> flags,
     margin_b |-> AsI32(margin_b), margin_r |-> AsI32(margin_r),
     name |-> NULL, userptr |-> NULL]

\* a with_flags_aligned that keeps the caller's flags as they are
NcPlaneOptions_with_flags_aligned_plain(y, align, rows, cols, resizecb, flags) ==
    [y |-> AsI32(y), x |-> AsI32(align), rows |-> rows, cols |-> cols,
     resizecb |-> ncresizecb_to_c(resizecb), flags |-> flags,
     margin_b |-> 0, margin_r |-> 0,
     name |-> NULL, userptr |-> NULL]

NcPlaneOptions_with_flags_aligned(y, align, rows, cols, resizecb, flags) ==
    [y |-> AsI32(y), x |-> AsI32(align), rows |-> rows, cols |-> cols,
     resizecb |-> ncresizecb_to_c(resizecb), flags |-> HORALIGNED \cup flags,
     margin_b |-> 0, margin_r |-> 0,
     name |-> NULL, userptr |-> NULL]

NcPlaneOptions_new(y, x, rows, cols) ==
    NcPlaneOptions_with_flags(y, x, rows, cols, None, {}, 0, 0)

NcPlaneOptions_new_aligned(y, align, rows, cols) ==
    NcPlaneOptions_with_flags_aligned(y, align, rows, cols, None, HORALIGNED)

OptOffsets == {0 - 1, 0, 1}
OptDims == {0, 1, U32Max}
NcAligns == 0..3
ResizeCbs == {None, Some(1)}
FlagWords == SUBSET (0..1)

Constructed(m, opts, args) ==
    /\ call' = [op |-> m, h |-> "none", raw |-> 0,
                res |-> Ret("NcPlaneOptions", opts), arg |-> args]
    /\ UNCHANGED <<lifeVars, pileVars, geoVars, restVars>>

Call_NcPlaneOptions_new ==
    \E y \in OptOffsets, x \in OptOffsets, rows \in OptDims, cols \in {1} :
        Constructed("NcPlaneOptions.new",
                    NcPlaneOptions_new(y, x, rows, cols),
                    <<y, x, rows, cols>>)

Call_NcPlaneOptions_new_aligned ==
    \E y \in OptOffsets, align \in NcAligns, rows \in OptDims, cols \in {1} :
        Constructed("NcPlaneOptions.new_aligned",
                    NcPlaneOptions_new_aligned(y, align, rows, cols),
                    <<y, align, rows, cols>>)

Call_NcPlaneOptions_with_flags ==
    \E y \in {0}, x \in OptOffsets, rows \in {1}, cols \in {1},
       resizecb \in ResizeCbs, flags \in FlagWords,
       margin_b \in OptOffsets, margin_r \in {0, 1} :
        Constructed("NcPlaneOptions.with_flags",
                    NcPlaneOptions_with_flags(y, x, rows, cols, resizecb,
                                              flags, margin_b, margin_r),
                    <<y, x, rows, cols, resizecb, flags, margin_b, margin_r>>)

Call_NcPlaneOptions_with_flags_aligned ==
    \E y \in {0}, align \in NcAligns, rows \in {1}, cols \in {1},
       resizecb \in ResizeCbs, flags \in FlagWords :
        Constructed("NcPlaneOptions.with_flags_aligned",
                    NcPlaneOptions_with_flags_aligned(y, align, rows, cols,
                                                      resizecb, flags),
                    <<y, align, rows, cols, resizecb, flags>>)

InitOptions == call = NoCall /\ LifeInit /\ PileInit /\ GeoInit /\ RestInit

NextOptions ==
    \/ Call_NcPlaneOptions_new
    \/ Call_NcPlaneOptions_new_aligned
    \/ Call_NcPlaneOptions_with_flags
    \/ Call_NcPlaneOptions_with_flags_aligned

SpecOptions == InitOptions /\ [][NextOptions]_vars

OptionsOps ==
    {"NcPlaneOptions.new", "NcPlaneOptions.new_aligned",
     "NcPlaneOptions.with_flags", "NcPlaneOptions.with_flags_aligned"}

\* C22: the constructors of NcPlaneOptions always return a record: new
\* gives no flags, no margins, no resize callback and x as the column;
\* with_flags stores the caller's flags, callback and margins; the aligned
\* constructors give flags holding HORALIGNED and every flag of the caller,
\* the alignment in x and no margins.
C22_OptionsAsGiven ==
    call.op \in OptionsOps =>
       LET o == call.res.val
           a == call.arg
       IN /\ call.res.kind = "Ret"
          /\ o.y = a[1] /\ o.rows = a[3] /\ o.cols = a[4]
          /\ o.x = a[2]
          /\ call.op = "NcPlaneOptions.new" =>
                /\ o.flags = {}
                /\ o.margin_b = 0 /\ o.margin_r = 0
                /\ o.resizecb = None
          /\ call.op = "NcPlaneOptions.with_flags" =>
                /\ o.flags = a[6]
                /\ o.resizecb = a[5]
                /\ o.margin_b = a[7] /\ o.margin_r = a[8]
          /\ call.op = "NcPlaneOptions.new_aligned" =>
                /\ HORALIGNED \subseteq o.flags
                /\ o.margin_b = 0 /\ o.margin_r = 0
          /\ call.op = "NcPlaneOptions.with_flags_aligned" =>
                /\ HORALIGNED \subseteq o.flags
                /\ a[6] \subseteq o.flags
                /\ o.margin_b = 0 /\ o.margin_r = 0

\* with_flags_aligned has been given a flag other than HORALIGNED and a
\* callback
C22_Witness ==
    /\ call.op = "NcPlaneOptions.with_flags_aligned"
    /\ call.arg[6] = {1}
    /\ call.arg[5] # None
    /\ call.res.val.flags = {0, 1}

----------------------------------------------------------------------------
(* SpecRender2: drawing on the planes of a pile and showing the pile with  *)
(* render2, which renders and rasterizes in one call.                      *)

\* a native call that has returned ret
Done(f, args, ret) == [args |-> args, fn |-> f, ret |-> ret]

Render2Call(p, r, res, natives) ==
    /\ call' = [op |-> "NcPlane.render2", h |-> p, raw |-> r, res |-> res]
    /\ trace' = natives
    /\ UNCHANGED <<lifeVars, geoVars, treeVars, cellVars, ctx, pc, serial,
                   caller>>

\* a render2 that rasterizes whatever render returned
NcPlane_render2_unchecked(p) ==
    \E r1 \in {NCRESULT_ERR, NCRESULT_OK}, r2 \in {NCRESULT_ERR, NCRESULT_OK} :
        LET fr == ncpile_render(frame[p], content[p], r1) IN
        /\ frame' = [frame EXCEPT ![p] = fr]
        /\ rendered' = [rendered EXCEPT ![p] = @ \/ r1 >= 0]
        /\ screen' = ncpile_rasterize(screen, fr, r2)
        /\ Render2Call(p, r2, unit(r2),
                       <<Done("ncpile_render", <<p>>, r1),
                         Done("ncpile_rasterize", <<p>>, r2)>>)
        /\ UNCHANGED content

NcPlane_render2(p) ==
    \E r1 \in {NCRESULT_ERR, NCRESULT_OK}, r2 \in {NCRESULT_ERR, NCRESULT_OK} :
        LET fr == ncpile_render(frame[p], content[p], r1) IN
        /\ frame' = [frame EXCEPT ![p] = fr]
        /\ rendered' = [rendered EXCEPT ![p] = @ \/ r1 >= 0]
        /\ IF unit(r1).kind = "Err"
           THEN /\ screen' = screen
                /\ Render2Call(p, r1, unit(r1),
                               <<Done("ncpile_render", <<p>>, r1)>>)
           ELSE /\ screen' = ncpile_rasterize(screen, fr, r2)
                /\ Render2Call(p, r2, unit(r2),
                               <<Done("ncpile_render", <<p>>, r1),
                                 Done("ncpile_rasterize", <<p>>, r2)>>)
        /\ UNCHANGED content

InitRender2 == InitPile

NextRender2 ==
    \E p \in Piles :
        \/ NcPlane_putchar(p)
        \/ NcPlane_erase(p)
        \/ NcPlane_render2(p)

SpecRender2 == InitRender2 /\ [][NextRender2]_vars

\* C23: render2 calls render and then, only if render succeeded,
\* rasterize, both on its own pile, each at most once and nothing else; it
\* returns render's error when render fails and rasterize's outcome
\* otherwise.
C23_RenderThenRasterizeOnce ==
    [][call'.op = "NcPlane.render2" =>
          LET p == call'.h
              first == trace'[1]
          IN /\ Len(trace') \in 1..2
             /\ first.fn = "ncpile_render" /\ first.args = <<p>>
             /\ IF first.ret < 0
                THEN /\ Len(trace') = 1
                     /\ call'.res = Err(first.ret)
                     /\ screen' = screen
                ELSE /\ Len(trace') = 2
                     /\ trace'[2].fn = "ncpile_rasterize"
                     /\ trace'[2].args = <<p>>
                     /\ call'.res = unit(trace'[2].ret)]_vars

\* render2 has rendered and rasterized what was drawn
C23_Witness ==
    /\ call.op = "NcPlane.render2"
    /\ call.res.kind = "Ok"
    /\ Len(trace) = 2
    /\ content[call.h] # Blank
    /\ screen = content[call.h]

----------------------------------------------------------------------------
(* SpecLine: strings and newlines written to the plane of SpecText with    *)
(* putstrln and putln, which are built on putstr.                          *)

\* native: a newline is written: on a scrolling plane the cursor goes to
\* the start of the next line, the plane scrolling up on its last one, and
\* the columns reported are none or one; on a plane that does not scroll
\* the write fails with nothing written
ncplane_putstr_newline(pl, cs, cur) ==
    IF ~scrolling[pl]
    THEN {Written(0, cs, cur)}
    ELSE {Written(c, IF cur.y + 1 < geom[pl].rows
                     THEN cs ELSE ScrolledUp(geom[pl], cs),
                  Pos(IF cur.y + 1 < geom[pl].rows THEN cur.y + 1 ELSE cur.y,
                      0)) : c \in 0..1}

LineCall(m, pl, r, res, args, natives) ==
    /\ call' = [op |-> m, h |-> pl, raw |-> r, res |-> res, arg |-> args]
    /\ trace' = natives
    /\ UNCHANGED <<lifeVars, pileVars, geoVars, treeVars, scrolling, ctx,
                   pc, serial, caller>>

\* the strings written with putstrln, by their columns
LineCols == {1, TextCols, TextCols + 1}

NcPlane_putstrln(pl) ==
    \E string \in LineCols :
        LET a == ncplane_putstr(pl, string) IN
        IF putstr(a.raw).kind = "Err"
        THEN /\ cells' = [cells EXCEPT ![pl] = a.cells]
             /\ cursor' = [cursor EXCEPT ![pl] = a.cur]
             /\ LineCall("NcPlane.putstrln", pl, a.raw, putstr(a.raw),
                         <<string>>,
                         <<Done("ncplane_putstr", <<string>>, a.raw)>>)
        ELSE \E b \in ncplane_putstr_newline(pl, a.cells, a.cur) :
             /\ cells' = [cells EXCEPT ![pl] = b.cells]
             /\ cursor' = [cursor EXCEPT ![pl] = b.cur]
             /\ LineCall("NcPlane.putstrln", pl, b.raw,
                         IF putstr(b.raw).kind = "Err"
                         THEN putstr(b.raw)
                         ELSE Ok("u32", AsU32(putstr(a.raw).val
                                              + putstr(b.raw).val)),
                         <<string>>,
                         <<Done("ncplane_putstr", <<string>>, a.raw),
                           Done("ncplane_putstr", <<"\n">>, b.raw)>>)

NcPlane_putln(pl) ==
    \E b \in ncplane_putstr_newline(pl, cells[pl], cursor[pl]) :
        /\ cells' = [cells EXCEPT ![pl] = b.cells]
        /\ cursor' = [cursor EXCEPT ![pl] = b.cur]
        /\ LineCall("NcPlane.putln", pl, b.raw, putstr(b.raw), <<>>,
                    <<Done("ncplane_putstr", <<"\n">>, b.raw)>>)

InitLine == InitText

NextLine ==
    \/ NcPlane_putstrln("pl")
    \/ NcPlane_putln("pl")
    \/ NcPlane_cursor_move_yx_in_text("pl")
    \/ NcPlane_set_scrolling("pl")

SpecLine == InitLine /\ [][NextLine]_vars

\* the string of the call does not fit in what is left of the line of a
\* plane that does not scroll: writing it fails
StringFails == ~scrolling[call'.h] /\ Overflows

\* the newline cannot be written: the plane does not scroll
NewlineFails == ~scrolling[call'.h]

\* C24: putstrln writes the string and then the newline; it returns the
\* sum of the columns of the two writes only when both succeed; when the
\* string fails the newline is not attempted and the error is returned;
\* when the newline fails an error is returned and the string stays
\* written; putln returns the result of writing the newline.
C24_TwoWrites ==
    [][/\ call'.op = "NcPlane.putstrln" =>
             IF StringFails
             THEN Len(trace') = 1 /\ call'.res.kind = "Err"
             ELSE /\ Len(trace') = 2
                  /\ IF NewlineFails
                     THEN /\ call'.res.kind = "Err"
                          /\ cells'[call'.h] = ncplane_putstr(call'.h, call'.arg[1]).cells
                     ELSE call'.res = Ok("u32", trace'[1].ret + trace'[2].ret)
       /\ call'.op = "NcPlane.putln" =>
             /\ Len(trace') = 1
             /\ call'.res = putstr(trace'[1].ret)
             /\ NewlineFails => call'.res.kind = "Err"]_vars

\* C24, read on the results of the two putstr calls rather than on what
\* the native writes did: putstrln returns the first Err of the two calls,
\* not making the second after a first that returned Err, and the sum of
\* the two Ok values otherwise; putln returns what its putstr returns.
C24_Composition ==
    [][/\ call'.op = "NcPlane.putstrln" =>
             IF putstr(trace'[1].ret).kind = "Err"
             THEN Len(trace') = 1 /\ call'.res = putstr(trace'[1].ret)
             ELSE /\ Len(trace') = 2
                  /\ call'.res = IF putstr(trace'[2].ret).kind = "Err"
                                 THEN putstr(trace'[2].ret)
                                 ELSE Ok("u32", trace'[1].ret + trace'[2].ret)
       /\ call'.op = "NcPlane.putln" =>
             Len(trace') = 1 /\ call'.res = putstr(trace'[1].ret)]_vars

----------------------------------------------------------------------------
(* SpecCursor: the cursor of the plane of SpecText moved by rows, by       *)
(* columns and by both, after strings were written.                        *)

\* native ncplane_cursor_move_yx, for a cursor at cur
MovedFrom(pl, cur, y, x) ==
    IF <<y, x>> \in CellsOf(geom[pl])
    THEN Written(NCRESULT_OK, cells[pl], Pos(y, x))
    ELSE Written(NCRESULT_ERR, cells[pl], cur)

\* cursor_move_rows for a cursor at cur: cursor_yx, then cursor_move_yx
\* with (y as NcOffset + rows) as NcDim
cursor_move_rows(pl, cur, rows) ==
    MovedFrom(pl, cur, AsI32(AsU32(AsI32(cur.y) + rows)), AsI32(cur.x))

cursor_move_cols(pl, cur, cols) ==
    MovedFrom(pl, cur, AsI32(cur.y), AsI32(AsU32(AsI32(cur.x) + cols)))

CursorCall(m, pl, a, args) ==
    /\ cursor' = [cursor EXCEPT ![pl] = a.cur]
    /\ call' = [op |-> m, h |-> pl, raw |-> a.raw, res |-> unit(a.raw),
                arg |-> args]
    /\ UNCHANGED <<lifeVars, pileVars, geoVars, treeVars, cells, scrolling,
                   ctx, envVars>>

RowOffsets == {0 - 1, 1}
ColOffsets == {0 - 1, 1}

NcPlane_cursor_move_rows(pl) ==
    \E rows \in RowOffsets :
        CursorCall("NcPlane.cursor_move_rows", pl,
                   cursor_move_rows(pl, cursor[pl], rows), <<rows>>)

NcPlane_cursor_move_cols(pl) ==
    \E cols \in ColOffsets :
        CursorCall("NcPlane.cursor_move_cols", pl,
                   cursor_move_cols(pl, cursor[pl], cols), <<cols>>)

NcPlane_cursor_move_rel(pl) ==
    \E rows \in RowOffsets, cols \in ColOffsets :
        LET a == cursor_move_rows(pl, cursor[pl], rows) IN
        IF unit(a.raw).kind = "Err"
        THEN CursorCall("NcPlane.cursor_move_rel", pl, a, <<rows, cols>>)
        ELSE CursorCall("NcPlane.cursor_move_rel", pl,
                        cursor_move_cols(pl, a.cur, cols), <<rows, cols>>)

\* a string that fills the line from its start is written
NcPlane_putstr_line(pl) ==
    \E string \in {TextCols} :
        LET a == ncplane_putstr(pl, string) IN
        /\ cells' = [cells EXCEPT ![pl] = a.cells]
        /\ cursor' = [cursor EXCEPT ![pl] = a.cur]
        /\ TextCall("NcPlane.putstr", pl, a.raw, putstr(a.raw), <<string>>)
        /\ UNCHANGED scrolling

InitCursor == InitText

NextCursor ==
    \/ NcPlane_putstr_line("pl")
    \/ NcPlane_cursor_move_rows("pl")
    \/ NcPlane_cursor_move_cols("pl")
    \/ NcPlane_cursor_move_rel("pl")

SpecCursor == InitCursor /\ [][NextCursor]_vars

\* the cursor of the plane of the call, before it
Cur == cursor[call'.h]

\* C25: cursor_move_rows and cursor_move_cols return an error, leaving the
\* cursor where it is, whenever the cursor's coordinate plus the offset is
\* outside the plane, negative targets included; otherwise the cursor goes
\* to the target and its other coordinate stays.
C25_MoveByOffset ==
    [][/\ call'.op = "NcPlane.cursor_move_rows" =>
             IF Cur.y + call'.arg[1] \in 0..(geom[call'.h].rows - 1)
             THEN /\ call'.res.kind = "Ok"
                  /\ cursor'[call'.h] = Pos(Cur.y + call'.arg[1], Cur.x)
             ELSE call'.res.kind = "Err" /\ cursor'[call'.h] = Cur
       /\ call'.op = "NcPlane.cursor_move_cols" =>
             IF Cur.x + call'.arg[1] \in 0..(geom[call'.h].cols - 1)
             THEN /\ call'.res.kind = "Ok"
                  /\ cursor'[call'.h] = Pos(Cur.y, Cur.x + call'.arg[1])
             ELSE call'.res.kind = "Err" /\ cursor'[call'.h] = Cur]_vars

\* C29: a cursor_move_rel that returns an error leaves the cursor where it
\* was; one that succeeds leaves it at (y + rows, x + cols).
C29_RelMoveAllOrNothing ==
    [][call'.op = "NcPlane.cursor_move_rel" =>
          IF call'.res.kind = "Err"
          THEN cursor'[call'.h] = Cur
          ELSE cursor'[call'.h]
                  = Pos(Cur.y + call'.arg[1], Cur.x + call'.arg[2])]_vars

----------------------------------------------------------------------------
(* SpecTranslate: coordinates translated between the standard plane and a  *)
(* plane bound to it.                                                      *)

\* the origin of a plane bound to the standard plane, in absolute terms
AbsY(pl) == geom["std"].y + (IF pl = "std" THEN 0 ELSE geom[pl].y)
AbsX(pl) == geom["std"].x + (IF pl = "std" THEN 0 ELSE geom[pl].x)

\* native ncplane_translate: what it leaves behind the two pointers
ncplane_translate(src, dst, y, x) ==
    Pos(y + AbsY(src) - AbsY(dst), x + AbsX(src) - AbsX(dst))

\* native ncplane_translate_abs: what it leaves behind the two pointers,
\* and whether that is a coordinate of the plane
ncplane_translate_abs(pl, y, x) ==
    LET t == Pos(y - AbsY(pl), x - AbsX(pl)) IN
    [raw |-> IF <<t.y, t.x>> \in CellsOf(geom[pl]) THEN 1 ELSE 0, cur |-> t]

AbsCoords == 0..1

\* the caller's y and x are read into two temporaries, the native call
\* writes the temporaries, and the temporaries are dropped
TranslateCall(m, pl, args, r, res, temps) ==
    /\ call' = [op |-> m, h |-> pl, raw |-> r, res |-> res, arg |-> args]
    /\ trace' = <<Done(m, <<temps.y, temps.x>>, r)>>
    /\ UNCHANGED <<lifeVars, pileVars, geoVars, treeVars, cellVars, ctx,
                   pc, serial>>

NcPlane_translate(pl) ==
    /\ exists[pl]
    /\ \E target \in Planes, y \in AbsCoords, x \in AbsCoords :
          /\ exists[target]
          /\ caller' = <<y, x>>
          /\ TranslateCall("NcPlane.translate", pl, <<y, x, target>>, 0,
                           Ret("unit", 0),
                           ncplane_translate(pl, target, AsI32(y), AsI32(x)))

NcPlane_translate_abs(pl) ==
    /\ exists[pl]
    /\ \E y \in AbsCoords, x \in AbsCoords :
          LET a == ncplane_translate_abs(pl, AsI32(y), AsI32(x)) IN
          /\ caller' = <<y, x>>
          /\ TranslateCall("NcPlane.translate_abs", pl, <<y, x>>, a.raw,
                           Ret("bool", a.raw), a.cur)

\* the plane is created at, or moved to, an origin of the standard plane
NcPlane_new_at(pl) ==
    /\ ~exists[pl]
    /\ \E y \in 0..1, x \in 0..1, rows \in 1..MaxDim :
          /\ exists' = [exists EXCEPT ![pl] = TRUE]
          /\ geom' = [geom EXCEPT ![pl] = Geom(y, x, rows, 1)]
          /\ call' = [op |-> "NcPlane.new_bound", h |-> pl, raw |-> Addr,
                      res |-> error_ref_mut(Addr), arg |-> <<y, x>>]
          /\ UNCHANGED <<lifeVars, pileVars, term, restVars>>

InitTranslate == InitStd

NextTranslate ==
    \E pl \in Planes :
        \/ NcPlane_new_at(pl)
        \/ NcPlane_destroy_plane(pl)
        \/ NcPlane_translate(pl)
        \/ NcPlane_translate_abs(pl)

SpecTranslate == InitTranslate /\ [][NextTranslate]_vars

\* C26: after translate_abs and translate the caller's y and x hold the
\* translated coordinates, and translate_abs returns true exactly when the
\* translated coordinate is within the plane.
C26_CallerHoldsTranslated ==
    /\ call.op = "NcPlane.translate_abs" =>
          /\ caller = <<call.arg[1] - AbsY(call.h), call.arg[2] - AbsX(call.h)>>
          /\ call.res.val = 1 <=> <<caller[1], caller[2]>> \in CellsOf(geom[call.h])
    /\ call.op = "NcPlane.translate" =>
          caller = <<call.arg[1] + AbsY(call.h) - AbsY(call.arg[3]),
                     call.arg[2] + AbsX(call.h) - AbsX(call.arg[3])>>

\* what holds instead: the caller's variables are as they were, the
\* translated coordinates went to the temporaries, and the boolean is right
C26_TemporariesHoldTranslated ==
    /\ call.op = "NcPlane.translate_abs" =>
          /\ caller = <<call.arg[1], call.arg[2]>>
          /\ trace[1].args
                = <<call.arg[1] - AbsY(call.h), call.arg[2] - AbsX(call.h)>>
          /\ call.res.val = 1 <=> <<trace[1].args[1], trace[1].args[2]>>
                                     \in CellsOf(geom[call.h])
    /\ call.op = "NcPlane.translate" =>
          /\ caller = <<call.arg[1], call.arg[2]>>
          /\ trace[1].args
                = <<call.arg[1] + AbsY(call.h) - AbsY(call.arg[3]),
                    call.arg[2] + AbsX(call.h) - AbsX(call.arg[3])>>

----------------------------------------------------------------------------
(* SpecBox: boxes drawn from the cursor of a plane of three rows and three *)
(* columns.                                                                *)

BoxGeom == Geom(0, 0, 3, 3)

\* the cells on the border of the box with corners (y0, x0) and (y1, x1)
Border(y0, x0, y1, x1) ==
    {c \in (y0..y1) \X (x0..x1) : c[1] \in {y0, y1} \/ c[2] \in {x0, x1}}

\* native ncplane_double_box: a box with its upper-left corner at the
\* cursor and its lower-right corner at y_stop * x_stop; the smallest box
\* is 2x2 and a box is not drawn off the plane
ncplane_double_box(pl, y_stop, x_stop) ==
    LET cur == cursor[pl] IN
    IF /\ y_stop > cur.y /\ x_stop > cur.x
       /\ <<y_stop, x_stop>> \in CellsOf(geom[pl])
    THEN Written(NCRESULT_OK,
                 [c \in CellsOf(geom[pl]) |->
                     IF c \in Border(cur.y, cur.x, y_stop, x_stop)
                     THEN Drawn ELSE cells[pl][c]],
                 cur)
    ELSE Written(NCRESULT_ERR, cells[pl], cur)

BoxCall(m, pl, a, args, natives) ==
    /\ cells' = [cells EXCEPT ![pl] = a.cells]
    /\ call' = [op |-> m, h |-> pl, raw |-> a.raw, res |-> unit(a.raw),
                arg |-> args]
    /\ trace' = natives
    /\ UNCHANGED <<lifeVars, pileVars, geoVars, treeVars, cursor, scrolling,
                   ctx, pc, serial, caller>>

NcPlane_double_box(pl) ==
    \E y_stop \in 1..2, x_stop \in 1..2 :
        LET a == ncplane_double_box(pl, y_stop, x_stop) IN
        BoxCall("NcPlane.double_box", pl, a, <<y_stop, x_stop>>,
                <<Done("ncplane_double_box", <<y_stop, x_stop>>, a.raw)>>)

NcPlane_double_box_sized(pl) ==
    \E y_len \in 2..3, x_len \in 2..3 :
        LET a == ncplane_double_box(pl, y_len, x_len) IN
        BoxCall("NcPlane.double_box_sized", pl, a, <<y_len, x_len>>,
                <<Done("ncplane_double_box", <<y_len, x_len>>, a.raw)>>)

NcPlane_cursor_move_yx_in_box(pl) ==
    \E y \in 0..1, x \in 0..1 :
        LET a == ncplane_cursor_move_yx(pl, AsI32(y), AsI32(x)) IN
        /\ cursor' = [cursor EXCEPT ![pl] = a.cur]
        /\ TextCall("NcPlane.cursor_move_yx", pl, a.raw, unit(a.raw),
                    <<y, x>>)
        /\ UNCHANGED <<cells, scrolling>>

NcPlane_erase_box(pl) ==
    /\ cells' = [cells EXCEPT ![pl] = BlankCells(geom[pl])]
    /\ TextCall("NcPlane.erase", pl, 0, Ret("unit", 0), <<>>)
    /\ UNCHANGED <<cursor, scrolling>>

InitBox ==
    /\ call = NoCall
    /\ LifeInit /\ PileInit /\ TreeInit
    /\ exists = [pl \in Planes |-> TRUE]
    /\ geom = [pl \in Planes |-> BoxGeom]
    /\ term = Size(BoxGeom.rows, BoxGeom.cols)
    /\ cells = [pl \in Planes |-> BlankCells(BoxGeom)]
    /\ cursor = [pl \in Planes |-> Pos(0, 0)]
    /\ scrolling = [pl \in Planes |-> FALSE]
    /\ ctx = "none"
    /\ EnvInit

NextBox ==
    \/ NcPlane_double_box("pl")
    \/ NcPlane_double_box_sized("pl")
    \/ NcPlane_cursor_move_yx_in_box("pl")
    \/ NcPlane_erase_box("pl")

SpecBox == InitBox /\ [][NextBox]_vars

\* C27: double_box_sized(.., y_len, x_len, ..) does what double_box does
\* with y_stop = cursor_y + y_len - 1 and x_stop = cursor_x + x_len - 1.
C27_SizedIsBoxToStop ==
    [][call'.op = "NcPlane.double_box_sized" =>
          LET pl == call'.h
              a == ncplane_double_box(pl,
                                      cursor[pl].y + call'.arg[1] - 1,
                                      cursor[pl].x + call'.arg[2] - 1)
          IN /\ cells'[pl] = a.cells
             /\ call'.res = unit(a.raw)]_vars

----------------------------------------------------------------------------
(* SpecRegion: the methods that take the start of a region as optional     *)
(* coordinates, on the two planes of SpecErase; trace holds the arguments  *)
(* the native call was given.                                              *)

\* `y.unwrap_or(NcDim::MAX) as i32`
StartArg(o) == AsI32(unwrap_or(o, U32Max))
\* `len_y.unwrap_or(0)`
LenArg(o) == unwrap_or(o, 0)

\* native: the cells of the region that starts at (y, x), -1 standing for
\* the cursor, and goes on for ly x lx cells, 0 going through the boundary
\* of the plane; no cells at all when a coordinate is outside the plane
RegionOf(pl, y, x, ly, lx) ==
    LET sy == IF y = 0 - 1 THEN cursor[pl].y ELSE y
        sx == IF x = 0 - 1 THEN cursor[pl].x ELSE x
        ny == IF ly = 0 THEN geom[pl].rows - sy ELSE ly
        nx == IF lx = 0 THEN geom[pl].cols - sx ELSE lx
    IN  IF /\ <<sy, sx>> \in CellsOf(geom[pl])
           /\ sy + ny <= geom[pl].rows
           /\ sx + nx <= geom[pl].cols
        THEN (sy..(sy + ny - 1)) \X (sx..(sx + nx - 1))
        ELSE {}

\* native: the number of cells set, or an error
ncplane_stain(pl, y, x, ly, lx) ==
    LET region == RegionOf(pl, y, x, ly, lx) IN
    Written(IF region = {} THEN NCRESULT_ERR ELSE Cardinality(region),
            cells[pl], cursor[pl])

\* native: the cells of the region are filled with half blocks
ncplane_gradient2x1(pl, y, x, ly, lx) ==
    LET region == RegionOf(pl, y, x, ly, lx) IN
    Written(IF region = {} THEN NCRESULT_ERR ELSE Cardinality(region),
            [c \in DOMAIN cells[pl] |->
                IF c \in region THEN Drawn ELSE cells[pl][c]],
            cursor[pl])

\* native: the string, or the array, made of the region; NULL without one
ncplane_contents(pl, y, x, ly, lx) ==
    Written(IF RegionOf(pl, y, x, ly, lx) = {} THEN NULL ELSE Addr,
            cells[pl], cursor[pl])

RegionCall(m, pl, a, res, args, fwd_args) ==
    /\ cells' = [cells EXCEPT ![pl] = a.cells]
    /\ call' = [op |-> m, h |-> pl, raw |-> a.raw, res |-> res,
                arg |-> args]
    /\ trace' = <<Done(m, fwd_args, a.raw)>>
    /\ UNCHANGED <<lifeVars, pileVars, geoVars, treeVars, cursor, scrolling,
                   ctx, pc, serial, caller>>

StartOpts == {None, Some(0), Some(1), Some(U32Max)}
LenOpts == {None, Some(1)}

NcPlane_stain_region(pl) ==
    \E y \in StartOpts, x \in {None, Some(0)}, y_stop \in LenOpts, x_stop \in {None} :
        LET a == ncplane_stain(pl, StartArg(y), StartArg(x),
                               LenArg(y_stop), LenArg(x_stop))
        IN RegionCall("NcPlane.stain", pl, a, error(a.raw, "u32", a.raw),
                      <<y, x, y_stop, x_stop>>,
                      <<StartArg(y), StartArg(x), LenArg(y_stop), LenArg(x_stop)>>)

NcPlane_format_region(pl) ==
    \E y \in StartOpts, x \in {None, Some(0)}, stop_y \in LenOpts, stop_x \in {None} :
        LET a == ncplane_stain(pl, StartArg(y), StartArg(x),
                               LenArg(stop_y), LenArg(stop_x))
        IN RegionCall("NcPlane.format", pl, a, error(a.raw, "u32", a.raw),
                      <<y, x, stop_y, stop_x>>,
                      <<StartArg(y), StartArg(x), LenArg(stop_y), LenArg(stop_x)>>)

NcPlane_contents(pl) ==
    \E beg_y \in StartOpts, beg_x \in {None, Some(0)}, len_y \in LenOpts, len_x \in {None} :
        LET a == ncplane_contents(pl, StartArg(beg_y), StartArg(beg_x),
                                  LenArg(len_y), LenArg(len_x))
        IN RegionCall("NcPlane.contents", pl, a,
                      IF a.raw = NULL THEN Abort("fault")
                      ELSE Ret("String", a.raw),
                      <<beg_y, beg_x, len_y, len_x>>,
                      <<StartArg(beg_y), StartArg(beg_x), LenArg(len_y), LenArg(len_x)>>)

NcPlane_as_rgba(pl) ==
    \E beg_y \in StartOpts, beg_x \in {None, Some(0)}, len_y \in LenOpts, len_x \in {None} :
        LET a == ncplane_contents(pl, StartArg(beg_y), StartArg(beg_x),
                                  LenArg(len_y), LenArg(len_x))
        IN RegionCall("NcPlane.as_rgba", pl, a, error_ref_mut(a.raw),
                      <<beg_y, beg_x, len_y, len_x>>,
                      <<StartArg(beg_y), StartArg(beg_x), LenArg(len_y), LenArg(len_x)>>)

NcPlane_gradient2x1_region(pl) ==
    \E y \in StartOpts, x \in {None, Some(0)}, len_y \in LenOpts, len_x \in {None} :
        LET a == ncplane_gradient2x1(pl, StartArg(y), StartArg(x),
                                     LenArg(len_y), LenArg(len_x))
        IN RegionCall("NcPlane.gradient2x1", pl, a,
                      error(a.raw, "u32", AsU32(a.raw)),
                      <<y, x, len_y, len_x>>,
                      <<StartArg(y), StartArg(x), LenArg(len_y), LenArg(len_x)>>)

NcPlane_erase_region_from(pl) ==
    \E beg_y \in StartOpts, beg_x \in {None, Some(0)}, len_y \in {0, 1}, len_x \in {0},
       skip \in {0, 1} :
        LET a == ncplane_erase_region(pl, AsI32(unwrap_or(beg_y, U32Max)),
                                      AsI32(unwrap_or(beg_x, U32Max)),
                                      len_y, len_x, skip)
        IN RegionCall("NcPlane.erase_region", pl, a, unit(a.raw),
                      <<beg_y, beg_x, len_y, len_x>>,
                      <<AsI32(unwrap_or(beg_y, U32Max)),
                        AsI32(unwrap_or(beg_x, U32Max)), len_y, len_x>>)

NcPlane_mergedown_from(self) ==
    \E source \in Planes \ {self}, beg_src_y \in StartOpts, len_y \in LenOpts,
       dst_y \in {None, Some(U32Max)} :
        LET a == ncplane_mergedown(source, self,
                                   StartArg(beg_src_y), StartArg(None),
                                   LenArg(len_y), LenArg(None),
                                   StartArg(dst_y), StartArg(None))
        IN RegionCall("NcPlane.mergedown", self, a, unit(a.raw),
                      <<beg_src_y, None, len_y, None, dst_y, None>>,
                      <<StartArg(beg_src_y), StartArg(None), LenArg(len_y),
                        LenArg(None), StartArg(dst_y), StartArg(None)>>)

InitRegion == InitErase

NextRegion ==
    \/ NcPlane_putstr_yx("pl")
    \/ NcPlane_cursor_move_yx_to("pl")
    \/ NcPlane_stain_region("pl")
    \/ NcPlane_format_region("pl")
    \/ NcPlane_contents("pl")
    \/ NcPlane_as_rgba("pl")
    \/ NcPlane_gradient2x1_region("pl")
    \/ NcPlane_erase_region_from("pl")
    \/ NcPlane_mergedown_from("pl")

SpecRegion == InitRegion /\ [][NextRegion]_vars

RegionOps ==
    {"NcPlane.stain", "NcPlane.format", "NcPlane.contents",
     "NcPlane.erase_region", "NcPlane.mergedown", "NcPlane.as_rgba",
     "NcPlane.gradient2x1"}

\* the positions of the start coordinates, and of the optional lengths,
\* among the arguments of a method
StartsOf(m) == IF m = "NcPlane.mergedown" THEN {1, 2, 5, 6} ELSE {1, 2}
LensOf(m) == IF m = "NcPlane.erase_region" THEN {} ELSE {3, 4}

\* C30: for stain, format, contents, erase_region, mergedown, as_rgba and
\* gradient2x1, None is the only argument that selects the cursor for a
\* start coordinate: every Some(v) reaches the native call as the explicit
\* non-negative coordinate v, and None reaches it as the cursor value -1;
\* a None length or stop reaches it as 0.
C30_OnlyNoneSelectsCursor ==
    call.op \in RegionOps =>
        /\ \A i \in StartsOf(call.op) :
              /\ trace[1].args[i] = 0 - 1 <=> call.arg[i] = None
              /\ call.arg[i] # None =>
                    /\ trace[1].args[i] = call.arg[i][1]
                    /\ trace[1].args[i] >= 0
        /\ \A i \in LensOf(call.op) :
              call.arg[i] = None => trace[1].args[i] = 0

\* what holds of the forwarding: a start is passed as its 32-bit pattern
\* read as signed, None giving the pattern of NcDim::MAX, and a length is
\* passed as itself, None giving 0
C30_ForwardedAsCast ==
    call.op \in RegionOps =>
        /\ \A i \in StartsOf(call.op) :
              trace[1].args[i] = AsI32(unwrap_or(call.arg[i], U32Max))
        /\ \A i \in LensOf(call.op) :
              trace[1].args[i] = unwrap_or(call.arg[i], 0)

====
